---- MODULE Spec2Model ----
(***************************************************************************)
(* Model of redlog's printf-style formatting core                          *)
(* (src/include/redlog/redlog.hpp, namespace redlog::detail):              *)
(*   stringify, format_spec_info::parse, format_argument, stream_printf,   *)
(* and of the entry points that call it (namespace redlog):                *)
(*   fmt, logger::*_f, logger::info and the other levels, with_field,      *)
(*   field, set_level,                                                     *)
(* and of the objects around them: logger, field_set, default_formatter,   *)
(* file_sink, and detail::config as several threads use it.                *)
(*                                                                         *)
(* Text is a sequence of one-character strings.  Indices are 1-based: the  *)
(* C++ pointer `format + i` is the index i + 1 and `end` is Len + 1.       *)
(* A std::ostringstream is the pair (text written, formatting state).      *)
(***************************************************************************)
EXTENDS Integers, Sequences, FiniteSets, TLC

VARIABLES
  format,     \* the template
  args,       \* the argument pack
  pc,         \* "zero" | "scan" (the two loops), "done" (returned), "thrown", "crashed";
              \* "idle" when no stream_printf call is running
  pos,        \* the cursor: into result (zero arguments) or into format
  arg_index,  \* the argument counter
  result,     \* the output stream (its text is the std::string when there are no arguments)
  rendered,   \* history: the calls of format_argument so far
  min_level,  \* detail::config::min_level_, the global minimum level
  fault,      \* which of the logger's formatter_ / sink_ throws ("none" for neither)
  fields,     \* logger::fields_, the values of the fields added by with_field
  sink,       \* the entries the sink has written
  errlog,     \* the messages reported on stderr
  api,        \* the entry point called last (or still running), and its level
  outcome,    \* what the last finished call gave its caller
  calls,      \* the number of calls made so far
  loggers,    \* the logger objects constructed so far: name_, fields_, formatter_, sink_
  sets,       \* the field_set objects constructed so far: fields_ of each
  formatters, \* the default_formatter objects constructed so far: theme_ of each
  theme_,     \* detail::config::theme_, the global theme
  use_color,  \* what detail::should_use_color() returns in this process
  theme_mutex_, \* detail::config::theme_mutex_: its exclusive owner and its shared owners
  threads,    \* each thread's call in progress: its position and its locals
  completed,  \* history: the arguments of the set_level and the set_theme completed last
  file_sinks, \* the file_sink objects constructed so far: file_, should_close_, alive
  files       \* each FILE the program has had: how often it was opened and closed

printf_vars == <<format, args, pc, pos, arg_index, result, rendered>>

logger_vars == <<min_level, fault, fields, sink, errlog, api, outcome, calls>>

facade_vars == <<loggers, sets, formatters, theme_, use_color, theme_mutex_, threads, completed,
                 file_sinks, files>>

vars == <<format, args, pc, pos, arg_index, result, rendered,
          min_level, fault, fields, sink, errlog, api, outcome, calls,
          loggers, sets, formatters, theme_, use_color, theme_mutex_, threads, completed,
          file_sinks, files>>

(***************************************************************************)
(* Bounds of the checked input space.                                      *)
(***************************************************************************)
MaxTokens == 3

MaxArgs == 2

MaxCalls == 2

(***************************************************************************)
(* Characters and small text helpers.                                      *)
(***************************************************************************)
\* the characters std::isdigit accepts
Digits == {"0", "1", "2", "3", "4", "5", "6", "7", "8", "9"}

DigitVal(c) ==
  CASE c = "0" -> 0 [] c = "1" -> 1 [] c = "2" -> 2 [] c = "3" -> 3
    [] c = "4" -> 4 [] c = "5" -> 5 [] c = "6" -> 6 [] c = "7" -> 7
    [] c = "8" -> 8 [] c = "9" -> 9

LowerDigits == <<"0", "1", "2", "3", "4", "5", "6", "7", "8", "9", "a", "b", "c", "d", "e", "f">>

UpperDigits == <<"0", "1", "2", "3", "4", "5", "6", "7", "8", "9", "A", "B", "C", "D", "E", "F">>

\* the set std::strchr("diouxXeEfFgGaAcspn", c) searches
ConvChars ==
  {"d", "i", "o", "u", "x", "X", "e", "E", "f", "F", "g", "G", "a", "A", "c", "s", "p", "n"}

\* the characters the flag loops accept
FlagChars == {"0", "-"}

Rep(c, n) == [i \in 1..n |-> c]

Range(f) == { f[i] : i \in DOMAIN f }

Max(a, b) == IF a >= b THEN a ELSE b

\* std::find(pos, end, c): the first index >= from holding c, else Len + 1
FindChar(s, from, c) ==
  IF \E i \in from..Len(s) : s[i] = c
    THEN CHOOSE i \in from..Len(s) : s[i] = c /\ \A j \in from..(i - 1) : s[j] # c
    ELSE Len(s) + 1

\* while (p < end && *p in S) p++
SkipIn(s, from, S) ==
  IF \E i \in from..Len(s) : s[i] \notin S
    THEN CHOOSE i \in from..Len(s) : s[i] \notin S /\ \A j \in from..(i - 1) : s[j] \in S
    ELSE Max(from, Len(s) + 1)

\* while (p < end && *p not in S) p++
SkipNotIn(s, from, S) ==
  IF \E i \in from..Len(s) : s[i] \in S
    THEN CHOOSE i \in from..Len(s) : s[i] \in S /\ \A j \in from..(i - 1) : s[j] \notin S
    ELSE Max(from, Len(s) + 1)

RECURSIVE Flatten(_)
Flatten(ss) == IF ss = <<>> THEN <<>> ELSE Head(ss) \o Flatten(Tail(ss))

(***************************************************************************)
(* Numerals.  A numeral is a sequence of digit values, most significant    *)
(* first.  Values wider than the checker's integers (2^64 + v, INT_MAX     *)
(* overflow) are handled on numerals.                                      *)
(***************************************************************************)
RECURSIVE NatDigits(_, _)
NatDigits(n, base) ==
  IF n < base THEN <<n>> ELSE Append(NatDigits(n \div base, base), n % base)

PadLeft(ds, n, d) == Rep(d, Max(0, n - Len(ds))) \o ds

RECURSIVE StripZeros(_)
StripZeros(ds) ==
  IF ds # <<>> /\ Head(ds) = 0 THEN StripZeros(Tail(ds)) ELSE ds

DigitsText(ds, upper) ==
  [i \in 1..Len(ds) |-> IF upper THEN UpperDigits[ds[i] + 1] ELSE LowerDigits[ds[i] + 1]]

\* the numeral of static_cast<unsigned long long>(v) in base 16 or 8, for a
\* 32-bit int v >= -32768: 2^64 + v has all high bits set when v < 0
U64Digits(v, base) ==
  IF v >= 0 THEN NatDigits(v, base)
  ELSE IF base = 16
    THEN Rep(15, 12) \o PadLeft(NatDigits(65536 + v, 16), 4, 0)
    ELSE <<1>> \o Rep(7, 16) \o PadLeft(NatDigits(32768 + v, 8), 5, 0)

\* operator<<(long long) in decimal
DecText(v) ==
  IF v < 0 THEN <<"-">> \o DigitsText(NatDigits(0 - v, 10), FALSE)
           ELSE DigitsText(NatDigits(v, 10), FALSE)

\* numeral + 1, one digit longer when every digit is 9
RECURSIVE IncDigits(_)
IncDigits(ds) ==
  IF ds = <<>> THEN <<1>>
  ELSE IF ds[Len(ds)] < 9
    THEN [ds EXCEPT ![Len(ds)] = @ + 1]
    ELSE Append(IncDigits(SubSeq(ds, 1, Len(ds) - 1)), 0)

\* keep the first `keep` digits of ds, rounding to nearest, ties to even
\* (the values modelled are exact binary fractions, so a decimal tie is a tie)
RoundDigits(ds, keep) ==
  IF keep >= Len(ds) THEN ds \o Rep(0, keep - Len(ds))
  ELSE
    LET head == SubSeq(ds, 1, keep)
        first == ds[keep + 1]
        rest == SubSeq(ds, keep + 2, Len(ds))
        sticky == \E i \in 1..Len(rest) : rest[i] # 0
        odd == keep > 0 /\ ds[keep] % 2 = 1
        up == first > 5 \/ (first = 5 /\ (sticky \/ odd))
    IN IF up THEN IncDigits(head) ELSE head

\* std::stoi on a run of decimal digits: out_of_range above INT_MAX
IntMaxDigits == <<2, 1, 4, 7, 4, 8, 3, 6, 4, 7>>

RECURSIVE DigitsLess(_, _)
DigitsLess(a, b) ==
  IF a = <<>> THEN FALSE
  ELSE IF Head(a) # Head(b) THEN Head(a) < Head(b)
  ELSE DigitsLess(Tail(a), Tail(b))

StoiThrows(txt) ==
  LET ds == StripZeros([i \in 1..Len(txt) |-> DigitVal(txt[i])])
  IN Len(ds) > Len(IntMaxDigits)
     \/ (Len(ds) = Len(IntMaxDigits) /\ DigitsLess(IntMaxDigits, ds))

RECURSIVE DigitsValue(_)
DigitsValue(ds) ==
  IF ds = <<>> THEN 0 ELSE 10 * DigitsValue(SubSeq(ds, 1, Len(ds) - 1)) + ds[Len(ds)]

Stoi(txt) == DigitsValue(StripZeros([i \in 1..Len(txt) |-> DigitVal(txt[i])]))

(***************************************************************************)
(* Argument values.  The static type of a C++ argument is the field k:     *)
(*   "int"    a 32-bit int (arithmetic)                                    *)
(*   "float"  a non-negative double mant / 10^scale (arithmetic)           *)
(*   "bool"   a bool, v = 1 for true and 0 for false (arithmetic)          *)
(*   "str"    a std::string or string literal                              *)
(*   "cstr"   a const char* or char*, null or pointing at `text`           *)
(*   "obj"    a class type with operator<<, which writes `text`            *)
(*   "badobj" a class type whose operator<< throws                         *)
(*   "opaque" a class type with no operator<<                              *)
(***************************************************************************)
IntVal(v) == [k |-> "int", v |-> v]

FloatVal(m, sc) == [k |-> "float", mant |-> m, scale |-> sc]

StrVal(t) == [k |-> "str", text |-> t]

ObjVal(t) == [k |-> "obj", text |-> t]

BoolVal(b) == [k |-> "bool", v |-> IF b THEN 1 ELSE 0]

CStrVal(t) == [k |-> "cstr", null |-> FALSE, text |-> t]

NullCStr == [k |-> "cstr", null |-> TRUE, text |-> <<>>]

BadObjVal == [k |-> "badobj"]

OpaqueVal == [k |-> "opaque"]

\* std::is_arithmetic_v<decay_t>
IsArithmetic(value) == value.k \in {"int", "bool", "float"}

RECURSIVE Pow10(_)
Pow10(n) == IF n = 0 THEN 1 ELSE 10 * Pow10(n - 1)

\* static_cast<long long>(value): truncation toward zero
ToLongLong(value) ==
  IF value.k \in {"int", "bool"} THEN value.v ELSE value.mant \div Pow10(value.scale)

\* static_cast<double>(value) as sign, decimal numeral and decimal scale
ToDouble(value) ==
  IF value.k \in {"int", "bool"}
    THEN [neg |-> value.v < 0,
          ds |-> NatDigits(IF value.v < 0 THEN 0 - value.v ELSE value.v, 10),
          scale |-> 0]
    ELSE [neg |-> FALSE, ds |-> NatDigits(value.mant, 10), scale |-> value.scale]

\* static_cast<char>(value): the character with code value mod 256
CharOf(code) ==
  CASE code = 32 -> " " [] code = 37 -> "%" [] code = 42 -> "*" [] code = 48 -> "0"
    [] code = 65 -> "A" [] code = 97 -> "a" [] code = 2 -> "<STX>" [] code = 7 -> "<BEL>"
    [] code = 251 -> "<0xFB>" [] code = 255 -> "<0xFF>"
    [] OTHER -> "<byte>"

ToChar(value) == CharOf(ToLongLong(value) % 256)

(***************************************************************************)
(* Floating-point text as the C library produces it for %f, %e and %g.     *)
(***************************************************************************)
SignText(d) == IF d.neg THEN <<"-">> ELSE <<>>

RECURSIVE StripTrailingZeros(_)
StripTrailingZeros(ds) ==
  IF ds # <<>> /\ ds[Len(ds)] = 0 THEN StripTrailingZeros(SubSeq(ds, 1, Len(ds) - 1)) ELSE ds

\* the numeral of d * 10^p rounded to an integer, given the numeral d0 of
\* d * 10^scale with at least one integer digit
RoundAt(d0, scale, p) ==
  IF p >= scale THEN d0 \o Rep(0, p - scale) ELSE RoundDigits(d0, Len(d0) - (scale - p))

NonEmpty(ds) == IF ds = <<>> THEN <<0>> ELSE ds

SplitAt(all, p) ==
  [int |-> NonEmpty(StripZeros(SubSeq(all, 1, Len(all) - p))),
   frac |-> SubSeq(all, Len(all) - p + 1, Len(all))]

\* integer and fraction numerals of d rounded to p fractional digits
FixedParts(d, p) == SplitAt(RoundAt(PadLeft(d.ds, d.scale + 1, 0), d.scale, p), p)

PointText(int, frac) ==
  DigitsText(int, FALSE) \o (IF frac = <<>> THEN <<>> ELSE <<".">> \o DigitsText(frac, FALSE))

JoinFixed(d, fp, strip) ==
  SignText(d) \o PointText(fp.int, IF strip THEN StripTrailingZeros(fp.frac) ELSE fp.frac)

FixedText(d, p) == JoinFixed(d, FixedParts(d, p), FALSE)

\* p + 1 significant digits and the decimal exponent, given the numeral ds
\* without leading zeros and its rounding r to p + 1 digits
SciCarry(ds, scale, p, r) ==
  IF ds = <<>> THEN [sig |-> Rep(0, p + 1), exp |-> 0]
  ELSE IF Len(r) = p + 2
    THEN [sig |-> SubSeq(r, 1, p + 1), exp |-> Len(ds) - scale]
    ELSE [sig |-> r, exp |-> Len(ds) - 1 - scale]

SciRound(ds, scale, p) == SciCarry(ds, scale, p, RoundDigits(ds, p + 1))

SciParts(d, p) == SciRound(StripZeros(d.ds), d.scale, p)

ExpText(e, upper) ==
  <<IF upper THEN "E" ELSE "e", IF e < 0 THEN "-" ELSE "+">>
    \o DigitsText(PadLeft(NatDigits(IF e < 0 THEN 0 - e ELSE e, 10), 2, 0), FALSE)

JoinSci(d, sp, upper, strip) ==
  SignText(d)
    \o PointText(<<Head(sp.sig)>>,
                 IF strip THEN StripTrailingZeros(Tail(sp.sig)) ELSE Tail(sp.sig))
    \o ExpText(sp.exp, upper)

SciText(d, p, upper) == JoinSci(d, SciParts(d, p), upper, FALSE)

\* %g with precision p >= 1 and the parts sp of the %e form with p - 1 digits:
\* fixed when -4 <= exponent < p; trailing zeros of the fraction are removed
GenChoose(d, p, upper, sp) ==
  IF sp.exp >= -4 /\ sp.exp < p
    THEN JoinFixed(d, FixedParts(d, p - 1 - sp.exp), TRUE)
    ELSE JoinSci(d, sp, upper, TRUE)

GenAt(d, p, upper) == GenChoose(d, p, upper, SciParts(d, p - 1))

\* %g: precision 0 counts as 1
GenText(d, prec, upper) == GenAt(d, IF prec = 0 THEN 1 ELSE prec, upper)

(***************************************************************************)
(* std::ostringstream: the text written and the formatting state.          *)
(***************************************************************************)
NewStream ==
  [text |-> <<>>, base |-> 10, upper |-> FALSE, ff |-> "default", prec |-> 6,
   fill |-> " ", adjust |-> "none", width |-> 0]

\* ostream::write: unformatted, ignores and keeps the field width
Write(st, t) == [st EXCEPT !.text = @ \o t]

\* formatted insertion of text t: pads to the field width, then width = 0
Emit(st, t) ==
  LET pad == Rep(st.fill, Max(0, st.width - Len(t)))
  IN [st EXCEPT !.text = @ \o (IF st.adjust = "left" THEN t \o pad ELSE pad \o t),
                !.width = 0]

\* operator<<(long long): signed in decimal, two's complement otherwise
PutSigned(st, v) ==
  Emit(st, IF st.base = 10 THEN DecText(v) ELSE DigitsText(U64Digits(v, st.base), st.upper))

\* operator<<(unsigned long long) under std::hex or std::oct
PutUnsigned(st, v) == Emit(st, DigitsText(U64Digits(v, st.base), st.upper))

\* operator<<(double)
PutDouble(st, d) ==
  Emit(st, CASE st.ff = "fixed" -> FixedText(d, st.prec)
             [] st.ff = "scientific" -> SciText(d, st.prec, st.upper)
             [] OTHER -> GenText(d, st.prec, st.upper))

(***************************************************************************)
(* detail::stringify                                                       *)
(***************************************************************************)
Unprintable == <<"[", "u", "n", "p", "r", "i", "n", "t", "a", "b", "l", "e", "]">>

\* std::to_string: %d for integers, %f for double
to_string(value) ==
  IF value.k \in {"int", "bool"} THEN DecText(value.v) ELSE FixedText(ToDouble(value), 6)

\* the operator<< of the value throws inside stringify
stringify_throws(value) == value.k = "badobj"

\* stringify constructs a std::string from a null pointer: the branch for
\* types convertible to std::string_view is taken before the null check
stringify_undefined(value) == value.k = "cstr" /\ value.null

\* the text stringify returns when it returns
stringify(value) ==
  CASE value.k = "str" -> value.text
    [] value.k = "cstr" -> value.text
    [] IsArithmetic(value) -> to_string(value)
    [] value.k = "obj" -> Write(NewStream, value.text).text
    [] OTHER -> Unprintable

(***************************************************************************)
(* detail::format_spec_info::parse                                         *)
(***************************************************************************)
\* info.width = std::stoi(width_str); info.precision = std::stoi(precision_str)
ParsedInfo(c, zero_pad, left_align, width_str, precision_str, bad) ==
  [format_char |-> c, zero_pad |-> zero_pad, left_align |-> left_align,
   width |-> IF width_str = <<>> \/ bad THEN 0 ELSE Stoi(width_str),
   precision |-> IF precision_str = <<>> \/ bad THEN -1 ELSE Stoi(precision_str),
   threw |-> bad]

ParseNumbers(c, zero_pad, left_align, width_str, precision_str) ==
  ParsedInfo(c, zero_pad, left_align, width_str, precision_str,
             StoiThrows(width_str) \/ StoiThrows(precision_str))

\* the precision digits when spec_view[pos] is '.', else none
PrecisionStr(spec_view, at) ==
  IF at <= Len(spec_view) /\ spec_view[at] = "."
    THEN SubSeq(spec_view, at + 1, SkipIn(spec_view, at + 1, Digits) - 1)
    ELSE <<>>

ParseWidth(c, spec_view, width_start, width_end) ==
  ParseNumbers(c,
               \E i \in 1..(width_start - 1) : spec_view[i] = "0",
               \E i \in 1..(width_start - 1) : spec_view[i] = "-",
               SubSeq(spec_view, width_start, width_end - 1),
               PrecisionStr(spec_view, width_end))

ParseFlags(c, spec_view, width_start) ==
  ParseWidth(c, spec_view, width_start, SkipIn(spec_view, width_start, Digits))

ParseView(c, spec_view) == ParseFlags(c, spec_view, SkipIn(spec_view, 1, FlagChars))

parse(format_spec) ==
  IF Len(format_spec) < 2
    THEN [format_char |-> "<indeterminate>", width |-> 0, precision |-> -1,
          zero_pad |-> FALSE, left_align |-> FALSE, threw |-> FALSE]
    ELSE ParseView(format_spec[Len(format_spec)],
                   SubSeq(format_spec, 2, Len(format_spec) - 1))

(***************************************************************************)
(* detail::format_argument.  The result is the stream after the call and   *)
(* whether the call left by an exception (std::stoi inside parse).         *)
(***************************************************************************)
\* variant of ApplyWidth that never sets std::left
ApplyWidth_right(st, info, zero_ok) ==
  IF info.width > 0
    THEN [st EXCEPT !.width = info.width,
                    !.fill = IF zero_ok /\ info.zero_pad /\ ~info.left_align THEN "0" ELSE @]
    ELSE st

\* variant of ApplyWidth that sets the '0' fill whenever zero_pad is set
ApplyWidth_zero(st, info, zero_ok) ==
  IF info.width > 0
    THEN [st EXCEPT !.width = info.width,
                    !.fill = IF zero_ok /\ info.zero_pad THEN "0" ELSE @,
                    !.adjust = IF info.left_align THEN "left" ELSE @]
    ELSE st

\* if (width > 0) { setw(width); [setfill('0') unless left_align;] [left] }
ApplyWidth(st, info, zero_ok) ==
  IF info.width > 0
    THEN [st EXCEPT !.width = info.width,
                    !.fill = IF zero_ok /\ info.zero_pad /\ ~info.left_align THEN "0" ELSE @,
                    !.adjust = IF info.left_align THEN "left" ELSE @]
    ELSE st

\* oss << std::setfill(' ') << std::right
ResetFill(st) == [st EXCEPT !.fill = " ", !.adjust = "right"]

\* case 'd', 'i' on an arithmetic value
FormatDecimal(st, value, info) ==
  ResetFill(PutSigned(ApplyWidth(st, info, TRUE), ToLongLong(value)))

\* variant of FormatRadix that leaves the stream in decimal
FormatRadix_dec(st, value, info, radix, up) ==
  ResetFill(PutUnsigned(ApplyWidth([st EXCEPT !.upper = IF radix = 16 THEN up ELSE @],
                                   info, TRUE),
                        ToLongLong(value)))

\* case 'x', 'X', 'o' on an arithmetic value
FormatRadix(st, value, info, radix, up) ==
  ResetFill([PutUnsigned(ApplyWidth([st EXCEPT !.base = radix,
                                               !.upper = IF radix = 16 THEN up ELSE @],
                                    info, TRUE),
                         ToLongLong(value))
               EXCEPT !.base = 10])

\* variant of FormatFixed that takes an absent precision as std::fixed with 6 digits
FormatFixed_six(st, value, info) ==
  ResetFill([PutDouble(ApplyWidth([st EXCEPT
                                     !.ff = "fixed",
                                     !.prec = IF info.precision >= 0 THEN info.precision ELSE 6],
                                  info, TRUE),
                       ToDouble(value))
               EXCEPT !.ff = IF @ = "fixed" THEN "default" ELSE @])

\* case 'f', 'F' on an arithmetic value
FormatFixed(st, value, info) ==
  ResetFill([PutDouble(ApplyWidth([st EXCEPT
                                     !.ff = IF info.precision >= 0 THEN "fixed" ELSE @,
                                     !.prec = IF info.precision >= 0 THEN info.precision ELSE @],
                                  info, TRUE),
                       ToDouble(value))
               EXCEPT !.ff = IF @ = "fixed" THEN "default" ELSE @])

\* case 'e', 'E' on an arithmetic value
FormatScientific(st, value, info) ==
  ResetFill([PutDouble(ApplyWidth([st EXCEPT
                                     !.ff = "scientific",
                                     !.upper = IF info.format_char = "E" THEN TRUE ELSE @,
                                     !.prec = IF info.precision >= 0 THEN info.precision ELSE @],
                                  info, FALSE),
                       ToDouble(value))
               EXCEPT !.ff = IF @ = "scientific" THEN "default" ELSE @])

\* case 'c' on an arithmetic value
FormatChar(st, value) == Emit(st, <<ToChar(value)>>)

\* case 's' and default
FormatString(st, value, info) ==
  [Emit(ApplyWidth(st, info, FALSE), stringify(value)) EXCEPT !.adjust = "right"]

\* the conversion characters whose case has an `if constexpr (is_arithmetic)`
NumericConvs == {"d", "i", "x", "X", "o", "f", "F", "e", "E", "c"}

\* the arithmetic branch of the case for conversion character c
FormatNumeric(st, value, info, c) ==
  CASE c \in {"d", "i"} -> FormatDecimal(st, value, info)
    [] c = "x" -> FormatRadix(st, value, info, 16, FALSE)
    [] c = "X" -> FormatRadix(st, value, info, 16, TRUE)
    [] c = "o" -> FormatRadix(st, value, info, 8, FALSE)
    [] c \in {"f", "F"} -> FormatFixed(st, value, info)
    [] c \in {"e", "E"} -> FormatScientific(st, value, info)
    [] OTHER -> FormatChar(st, value)

\* switch (spec_info.format_char); the else branch of every numeric case is
\* oss << stringify(value)
FormatSwitch(st, value, info, c) ==
  IF c \in NumericConvs
    THEN IF IsArithmetic(value) THEN FormatNumeric(st, value, info, c)
                                ELSE Emit(st, stringify(value))
    ELSE FormatString(st, value, info)

\* a call that did not return: by an exception, or with undefined behaviour
Raised(st) == [st |-> st, threw |-> TRUE, undefined |-> FALSE]

Undefined(st) == [st |-> st, threw |-> FALSE, undefined |-> TRUE]

Returned(st) == [st |-> st, threw |-> FALSE, undefined |-> FALSE]

\* every case of the switch passes a non-arithmetic value to stringify
FormatParsed(st, value, spec_info) ==
  IF spec_info.threw \/ stringify_throws(value) THEN Raised(st)
  ELSE IF stringify_undefined(value) THEN Undefined(st)
  ELSE Returned(FormatSwitch(st, value, spec_info, spec_info.format_char))

format_argument(st, value, format_spec) ==
  IF Len(format_spec) < 2
    THEN IF stringify_throws(value) THEN Raised(st)
         ELSE IF stringify_undefined(value) THEN Undefined(st)
         ELSE Returned(Emit(st, stringify(value)))
    ELSE FormatParsed(st, value, parse(format_spec))

\* variant of process_arg_at_index whose index comparison is off by one
process_arg_at_index_prev(st, format_spec, target_index, arg_tuple) ==
  IF target_index >= 1 /\ target_index <= Len(arg_tuple)
    THEN [call |-> format_argument(st, arg_tuple[target_index], format_spec),
          used |-> target_index]
    ELSE [call |-> Returned(st), used |-> 0]

\* printf_detail::process_arg_at_index: format_argument on the element of the
\* tuple at target_index (`used` is its 1-based position, 0 when none is)
process_arg_at_index(st, format_spec, target_index, arg_tuple) ==
  IF target_index < Len(arg_tuple)
    THEN [call |-> format_argument(st, arg_tuple[target_index + 1], format_spec),
          used |-> target_index + 1]
    ELSE [call |-> Returned(st), used |-> 0]

(***************************************************************************)
(* The input space: one call stream_printf(format, args...).               *)
(***************************************************************************)
Tokens ==
  { <<"a">>, <<"%">>, <<"%", "d">>, <<"%", "X">>, <<"%", "e">>,
    <<"%", ".", "2", "f">>, <<"%", "q">> }

TokenTemplates ==
  { Flatten(ts) : ts \in UNION { [1..n -> Tokens] : n \in 0..MaxTokens } }

FlagRuns == { <<>>, <<"0">>, <<"-">>, <<"0", "-">>, <<"-", "0">> }

WidthRuns == { <<>>, <<"3">>, <<"1", "2">>, Rep("9", 10) }

PrecisionRuns == { <<>>, <<".">>, <<".", "2">>, <<".">> \o Rep("9", 10) }

ConvRuns ==
  { <<"d">>, <<"i">>, <<"x">>, <<"X">>, <<"o">>, <<"f">>, <<"F">>, <<"e">>, <<"E">>,
    <<"c">>, <<"s">>, <<"q">>, <<>> }

SpecTemplates ==
  { <<"%">> \o f \o w \o p \o c :
      f \in FlagRuns, w \in WidthRuns, p \in PrecisionRuns, c \in ConvRuns }

Values ==
  { IntVal(42), IntVal(-5), IntVal(0), IntVal(255), IntVal(2147483647), BoolVal(TRUE),
    FloatVal(25, 1), StrVal(<<"h", "i">>), CStrVal(<<"c", "s">>), NullCStr,
    ObjVal(<<"O", "b">>), BadObjVal, OpaqueVal }

\* the values the arguments of a template of several tokens are drawn from
TokenValues == { IntVal(42), FloatVal(25, 1), StrVal(<<"h", "i">>) }

ArgLists == UNION { [1..n -> TokenValues] : n \in 0..MaxArgs }

\* a template of several short tokens with any argument list, or a template of
\* one specifier with every flag, width and precision with at most one argument
Inputs ==
  (TokenTemplates \X ArgLists)
    \cup (SpecTemplates \X ({<<>>} \cup { <<v>> : v \in Values }))

(***************************************************************************)
(* detail::stream_printf, one action per pass through a loop body.         *)
(***************************************************************************)
End == Len(format) + 1

\* result.find("%%", pos): the first index >= from of a "%%" pair, 0 for npos
FindPair(s, from) ==
  IF \E i \in from..(Len(s) - 1) : s[i] = "%" /\ s[i + 1] = "%"
    THEN CHOOSE i \in from..(Len(s) - 1) :
           /\ s[i] = "%" /\ s[i + 1] = "%"
           /\ \A j \in from..(i - 1) : ~(s[j] = "%" /\ s[j + 1] = "%")
    ELSE 0

\* the index the scan of one specifier stops at, starting after the '%' at pp:
\* flags, width digits, '.' and precision digits, then anything up to the
\* first conversion character; Len + 1 when there is none
ScanSpec(s, pp) ==
  LET flags_end == SkipIn(s, pp + 1, FlagChars)
      width_end == SkipIn(s, flags_end, Digits)
      precision_end == IF width_end <= Len(s) /\ s[width_end] = "."
                         THEN SkipIn(s, width_end + 1, Digits)
                         ELSE width_end
  IN SkipNotIn(s, precision_end, ConvChars)

\* what a call gives its caller
NoOutcome == [kind |-> "none", text |-> <<>>]

ReturnedVoid == [kind |-> "returned", text |-> <<>>]

ReturnedText(t) == [kind |-> "returned", text |-> t]

Propagated == [kind |-> "exception", text |-> <<>>]

\* enum class color: none
NoColor == 0

\* themes::default_theme; the colours of the levels are indexed by level + 1
default_theme ==
  [ level_color |-> <<95, 31, 33, 32, 34, 37, 96, 96, 96>>,
    level_bg_color |-> <<0, 0, 0, 0, 0, 0, 0, 0, 0>>,
    source_color |-> 36, source_bg_color |-> 0, message_color |-> 37,
    field_key_color |-> 96, field_value_color |-> 37,
    source_width |-> 12, message_fixed_width |-> 44, pad_level_text |-> TRUE ]

\* themes::plain
plain ==
  [ level_color |-> <<0, 0, 0, 0, 0, 0, 0, 0, 0>>,
    level_bg_color |-> <<0, 0, 0, 0, 0, 0, 0, 0, 0>>,
    source_color |-> 0, source_bg_color |-> 0, message_color |-> 0,
    field_key_color |-> 0, field_value_color |-> 0,
    source_width |-> 12, message_fixed_width |-> 44, pad_level_text |-> TRUE ]

\* themes::minlog
minlog ==
  [ level_color |-> <<95, 31, 33, 32, 34, 37, 90, 90, 90>>,
    level_bg_color |-> <<100, 100, 100, 100, 100, 100, 0, 0, 0>>,
    source_color |-> 90, source_bg_color |-> 100, message_color |-> 37,
    field_key_color |-> 96, field_value_color |-> 37,
    source_width |-> 12, message_fixed_width |-> 44, pad_level_text |-> TRUE ]

\* std::shared_mutex as constructed: no owner
Unlocked == [writer |-> 0, readers |-> {}]

\* no set_level and no set_theme has completed: level::info and the default theme
NoneCompleted == [level |-> 3, theme |-> default_theme]

\* a program that has constructed no logger, field_set or file_sink and
\* started no thread; theme theme_ = themes::default_theme; NO_COLOR is set
FacadeInit ==
  /\ use_color = FALSE
  /\ loggers = <<>>
  /\ sets = <<>>
  /\ formatters = <<>>
  /\ theme_ = default_theme
  /\ theme_mutex_ = Unlocked
  /\ threads = <<>>
  /\ completed = NoneCompleted
  /\ file_sinks = <<>>
  /\ files = <<>>

\* std::atomic<level> min_level_{level::info}; a logger as constructed
LoggerInit ==
  /\ min_level = 3
  /\ fields = <<>>
  /\ sink = <<>>
  /\ errlog = <<>>
  /\ outcome = NoOutcome
  /\ calls = 0

\* one call of detail::stream_printf(format, args...) has been entered
Init ==
  /\ \E input \in Inputs : format = input[1] /\ args = input[2]
  /\ pc = IF args = <<>> THEN "zero" ELSE "scan"
  /\ pos = 1
  /\ arg_index = 0
  /\ result = IF args = <<>> THEN Write(NewStream, format) ELSE NewStream
  /\ rendered = <<>>
  /\ LoggerInit
  /\ fault = "none"
  /\ api = [name |-> "stream_printf", lvl |-> 0]
  /\ FacadeInit

\* variant of ReplacePair that leaves pos on the replaced character
ReplacePair_stay ==
  /\ pc = "zero"
  /\ FindPair(result.text, pos) # 0
  /\ LET p == FindPair(result.text, pos)
     IN /\ result' = [result EXCEPT !.text = SubSeq(@, 1, p) \o SubSeq(@, p + 2, Len(@))]
        /\ pos' = p
  /\ UNCHANGED <<format, args, pc, arg_index, rendered>>
  /\ UNCHANGED <<logger_vars, facade_vars>>

\* zero arguments: result.replace(pos, 2, "%"); pos += 1
ReplacePair ==
  /\ pc = "zero"
  /\ FindPair(result.text, pos) # 0
  /\ LET p == FindPair(result.text, pos)
     IN /\ result' = [result EXCEPT !.text = SubSeq(@, 1, p) \o SubSeq(@, p + 2, Len(@))]
        /\ pos' = p + 1
  /\ UNCHANGED <<format, args, pc, arg_index, rendered>>
  /\ UNCHANGED <<logger_vars, facade_vars>>

\* zero arguments: find returns npos; return result
ReturnCollapsed ==
  /\ pc = "zero"
  /\ FindPair(result.text, pos) = 0
  /\ pc' = "done"
  /\ UNCHANGED <<format, args, pos, arg_index, result, rendered>>
  /\ UNCHANGED <<logger_vars, facade_vars>>

\* while (pos < end) is false; return result.str()
ReturnResult ==
  /\ pc = "scan"
  /\ pos >= End
  /\ pc' = "done"
  /\ UNCHANGED <<format, args, pos, arg_index, result, rendered>>
  /\ UNCHANGED <<logger_vars, facade_vars>>

\* percent_pos == end: write the rest and break
NoMoreSpecifiers ==
  /\ pc = "scan"
  /\ pos < End
  /\ FindChar(format, pos, "%") = End
  /\ result' = Write(result, SubSeq(format, pos, Len(format)))
  /\ pc' = "done"
  /\ UNCHANGED <<format, args, pos, arg_index, rendered>>
  /\ UNCHANGED <<logger_vars, facade_vars>>

\* percent_pos + 1 >= end: write the text before, then '%', and break
TrailingPercent ==
  /\ pc = "scan"
  /\ pos < End
  /\ LET pp == FindChar(format, pos, "%")
     IN /\ pp < End
        /\ pp + 1 >= End
        /\ result' = Emit(Write(result, SubSeq(format, pos, pp - 1)), <<"%">>)
  /\ pc' = "done"
  /\ UNCHANGED <<format, args, pos, arg_index, rendered>>
  /\ UNCHANGED <<logger_vars, facade_vars>>

\* variant of EscapedPercent that advances the cursor by one
EscapedPercent_step1 ==
  /\ pc = "scan"
  /\ pos < End
  /\ LET pp == FindChar(format, pos, "%")
     IN /\ pp + 1 < End
        /\ format[pp + 1] = "%"
        /\ result' = Emit(Write(result, SubSeq(format, pos, pp - 1)), <<"%">>)
        /\ pos' = pp + 1
  /\ UNCHANGED <<format, args, pc, arg_index, rendered>>
  /\ UNCHANGED <<logger_vars, facade_vars>>

\* next_char == '%': write the text before, then '%'; pos = percent_pos + 2
EscapedPercent ==
  /\ pc = "scan"
  /\ pos < End
  /\ LET pp == FindChar(format, pos, "%")
     IN /\ pp + 1 < End
        /\ format[pp + 1] = "%"
        /\ result' = Emit(Write(result, SubSeq(format, pos, pp - 1)), <<"%">>)
        /\ pos' = pp + 2
  /\ UNCHANGED <<format, args, pc, arg_index, rendered>>
  /\ UNCHANGED <<logger_vars, facade_vars>>

\* spec_end >= end: write the text before and the rest from '%', and break
InvalidFormat ==
  /\ pc = "scan"
  /\ pos < End
  /\ LET pp == FindChar(format, pos, "%")
     IN /\ pp + 1 < End
        /\ format[pp + 1] # "%"
        /\ ScanSpec(format, pp) >= End
        /\ result' = Write(result, SubSeq(format, pos, Len(format)))
  /\ pc' = "done"
  /\ UNCHANGED <<format, args, pos, arg_index, rendered>>
  /\ UNCHANGED <<logger_vars, facade_vars>>

\* process_arg_at_index returned: the specifier at pp..stop is replaced by
\* what the call r wrote behind the stream `before`; ++arg_index; pos = spec_end
Formatted(pp, stop, before, r) ==
  /\ ~r.call.threw
  /\ ~r.call.undefined
  /\ result' = r.call.st
  /\ rendered' = Append(rendered,
       [start |-> pp, stop |-> stop, arg |-> r.used,
        state |-> [before EXCEPT !.text = <<>>],
        out |-> SubSeq(r.call.st.text, Len(before.text) + 1, Len(r.call.st.text))])
  /\ arg_index' = arg_index + 1
  /\ pos' = stop + 1

\* arg_index < sizeof...(args): format_argument on the argument at arg_index
ProcessArg ==
  /\ pc = "scan"
  /\ pos < End
  /\ LET pp == FindChar(format, pos, "%")
     IN /\ pp + 1 < End
        /\ format[pp + 1] # "%"
        /\ ScanSpec(format, pp) < End
        /\ arg_index < Len(args)
        /\ Formatted(pp, ScanSpec(format, pp),
                     Write(result, SubSeq(format, pos, pp - 1)),
                     process_arg_at_index(Write(result, SubSeq(format, pos, pp - 1)),
                                          SubSeq(format, pp, ScanSpec(format, pp)),
                                          arg_index, args))
  /\ UNCHANGED <<format, args, pc>>
  /\ UNCHANGED <<logger_vars, facade_vars>>

\* the call did not return normally
Failed(call) == call.threw \/ call.undefined

\* format_argument leaves by an exception: std::out_of_range from std::stoi,
\* whatever a user's operator<< throws, or std::logic_error where the library
\* checks the null pointer given to std::string
ProcessArgThrows ==
  /\ pc = "scan"
  /\ pos < End
  /\ LET pp == FindChar(format, pos, "%")
     IN /\ pp + 1 < End
        /\ format[pp + 1] # "%"
        /\ ScanSpec(format, pp) < End
        /\ arg_index < Len(args)
        /\ Failed(process_arg_at_index(Write(result, SubSeq(format, pos, pp - 1)),
                                       SubSeq(format, pp, ScanSpec(format, pp)),
                                       arg_index, args).call)
        /\ result' = Write(result, SubSeq(format, pos, pp - 1))
  /\ pc' = "thrown"
  /\ UNCHANGED <<format, args, pos, arg_index, rendered>>
  /\ UNCHANGED <<logger_vars, facade_vars>>

\* std::string built from a null pointer where the library does not check
\* it: the read through the pointer ends the process
ProcessArgCrashes ==
  /\ pc = "scan"
  /\ pos < End
  /\ LET pp == FindChar(format, pos, "%")
     IN /\ pp + 1 < End
        /\ format[pp + 1] # "%"
        /\ ScanSpec(format, pp) < End
        /\ arg_index < Len(args)
        /\ process_arg_at_index(Write(result, SubSeq(format, pos, pp - 1)),
                                SubSeq(format, pp, ScanSpec(format, pp)),
                                arg_index, args).call.undefined
        /\ result' = Write(result, SubSeq(format, pos, pp - 1))
  /\ pc' = "crashed"
  /\ UNCHANGED <<format, args, pos, arg_index, rendered>>
  /\ UNCHANGED <<logger_vars, facade_vars>>

\* variant of CopySpecifier that skips the specifier without writing it
CopySpecifier_drop ==
  /\ pc = "scan"
  /\ pos < End
  /\ LET pp == FindChar(format, pos, "%")
     IN /\ pp + 1 < End
        /\ format[pp + 1] # "%"
        /\ ScanSpec(format, pp) < End
        /\ arg_index >= Len(args)
        /\ LET spec_end == ScanSpec(format, pp) + 1
           IN /\ result' = Write(result, SubSeq(format, pos, pp - 1))
              /\ pos' = spec_end
  /\ UNCHANGED <<format, args, pc, arg_index, rendered>>
  /\ UNCHANGED <<logger_vars, facade_vars>>

\* no more args: write the specifier as it is
CopySpecifier ==
  /\ pc = "scan"
  /\ pos < End
  /\ LET pp == FindChar(format, pos, "%")
     IN /\ pp + 1 < End
        /\ format[pp + 1] # "%"
        /\ ScanSpec(format, pp) < End
        /\ arg_index >= Len(args)
        /\ LET spec_end == ScanSpec(format, pp) + 1
           IN /\ result' = Write(result, SubSeq(format, pos, spec_end - 1))
              /\ pos' = spec_end
  /\ UNCHANGED <<format, args, pc, arg_index, rendered>>
  /\ UNCHANGED <<logger_vars, facade_vars>>

Next ==
  \/ ReplacePair
  \/ ReturnCollapsed
  \/ ReturnResult
  \/ NoMoreSpecifiers
  \/ TrailingPercent
  \/ EscapedPercent
  \/ InvalidFormat
  \/ ProcessArg
  \/ ProcessArgThrows
  \/ ProcessArgCrashes
  \/ CopySpecifier

Spec == Init /\ [][Next]_vars

(***************************************************************************)
(* The entry points: set_level, the logging methods, with_field, the       *)
(* `*_f` methods and fmt.  A `*_f` method and fmt run stream_printf, whose  *)
(* steps are the actions above, and return by an action of their own.      *)
(***************************************************************************)
\* #define REDLOG_MIN_LEVEL 8
REDLOG_MIN_LEVEL == 8

\* enum class level: critical = 0 ... annoying = 8
Levels == 0..8

\* the formatter or the sink a logger is constructed with may throw
Faults == {"none", "formatter", "sink"}

\* the values a caller passes as a field value
FieldValues == { StrVal(<<"h", "i">>), BadObjVal }

\* the message of a logging call that does not format
Message == <<"m">>

FormatError == <<"[", "f", "o", "r", "m", "a", "t", "_", "e", "r", "r", "o", "r", "]">>

PrintfFormatError == <<"[", "p", "r", "i", "n", "t", "f", "_", "f", "o", "r", "m", "a", "t", "_", "e", "r", "r", "o", "r", "]">>

\* the calls of fmt and of the `*_f` methods
LogInputs ==
  { << <<"%", "%">>, <<>> >>,
    << <<"%", "d", "%", "d">>, <<IntVal(42)>> >>,
    << <<"%", "%", "%", "s", "x">>, <<StrVal(<<"h", "i">>)>> >>,
    << <<"%", "q">>, <<IntVal(42)>> >>,
    << <<"%", "d", "%">>, <<IntVal(42)>> >>,
    << <<"%", "s">>, <<BadObjVal>> >>,
    << <<"%", "s">>, <<NullCStr>> >>,
    << <<"%">> \o Rep("9", 10) \o <<"d">>, <<IntVal(42)>> >> }

\* no call has been made
Idle == [name |-> "none", lvl |-> 0]

\* a program that has constructed one logger and made no call yet
LogInit ==
  /\ format = <<>>
  /\ args = <<>>
  /\ pc = "idle"
  /\ pos = 1
  /\ arg_index = 0
  /\ result = NewStream
  /\ rendered = <<>>
  /\ LoggerInit
  /\ fault \in Faults
  /\ api = Idle
  /\ FacadeInit

\* variant of should_log that compares the other way round
should_log_above(l) ==
  IF l > REDLOG_MIN_LEVEL THEN FALSE ELSE l >= min_level

\* logger::should_log
should_log(l) ==
  IF l > REDLOG_MIN_LEVEL THEN FALSE ELSE l <= min_level

\* logger::log_impl_with_fields: filter, then format and write the entry;
\* catch (...) reports the message on stderr
log_impl_with_fields(lvl, msg, entry_fields) ==
  IF ~should_log(lvl) THEN UNCHANGED <<sink, errlog>> /\ outcome' = ReturnedVoid
  ELSE IF fault = "none"
    THEN /\ sink' = Append(sink, [lvl |-> lvl, msg |-> msg, fields |-> fields \o entry_fields])
         /\ errlog' = errlog
         /\ outcome' = ReturnedVoid
    ELSE /\ sink' = sink
         /\ errlog' = Append(errlog, msg)
         /\ outcome' = ReturnedVoid

\* set_level(l)
SetLevel ==
  /\ pc = "idle"
  /\ calls < MaxCalls
  /\ \E l \in Levels :
       /\ min_level' = l
       /\ api' = [name |-> "set_level", lvl |-> l]
  /\ outcome' = ReturnedVoid
  /\ calls' = calls + 1
  /\ UNCHANGED <<fault, facade_vars, fields, sink, errlog>>
  /\ UNCHANGED printf_vars

\* log.info(msg) and the other levels; the short names forward to them
Log ==
  /\ pc = "idle"
  /\ calls < MaxCalls
  /\ \E l \in Levels :
       /\ log_impl_with_fields(l, Message, <<>>)
       /\ api' = [name |-> "log", lvl |-> l]
  /\ calls' = calls + 1
  /\ UNCHANGED <<min_level, fault, facade_vars, fields>>
  /\ UNCHANGED printf_vars

\* log.info(msg, field(key, v)): the field, and with it stringify(v), is
\* evaluated by the caller before the method is entered
LogField ==
  /\ pc = "idle"
  /\ calls < MaxCalls
  /\ \E l \in Levels, v \in FieldValues :
       /\ IF stringify_throws(v)
            THEN outcome' = Propagated /\ UNCHANGED <<sink, errlog>>
            ELSE log_impl_with_fields(l, Message, <<stringify(v)>>)
       /\ api' = [name |-> "log_field", lvl |-> l]
  /\ calls' = calls + 1
  /\ UNCHANGED <<min_level, fault, facade_vars, fields>>
  /\ UNCHANGED printf_vars

\* log = log.with_field(key, v)
WithField ==
  /\ pc = "idle"
  /\ calls < MaxCalls
  /\ \E v \in FieldValues :
       IF stringify_throws(v)
         THEN outcome' = Propagated /\ fields' = fields
         ELSE outcome' = ReturnedVoid /\ fields' = Append(fields, stringify(v))
  /\ api' = [name |-> "with_field", lvl |-> 0]
  /\ calls' = calls + 1
  /\ UNCHANGED <<min_level, fault, facade_vars, sink, errlog>>
  /\ UNCHANGED printf_vars

\* the caller enters detail::stream_printf(format, args...)
EnterPrintf(input) ==
  /\ format' = input[1]
  /\ args' = input[2]
  /\ pc' = IF input[2] = <<>> THEN "zero" ELSE "scan"
  /\ pos' = 1
  /\ arg_index' = 0
  /\ result' = IF input[2] = <<>> THEN Write(NewStream, input[1]) ELSE NewStream
  /\ rendered' = <<>>

\* log.info_f(format, args...) and the other levels: should_log is false
FormattedFiltered ==
  /\ pc = "idle"
  /\ calls < MaxCalls
  /\ \E l \in Levels :
       /\ ~should_log(l)
       /\ api' = [name |-> "log_f", lvl |-> l]
  /\ outcome' = ReturnedVoid
  /\ calls' = calls + 1
  /\ UNCHANGED <<min_level, fault, facade_vars, fields, sink, errlog>>
  /\ UNCHANGED printf_vars

\* log.info_f(format, args...) and the other levels: format_string calls stream_printf
FormattedEnter ==
  /\ pc = "idle"
  /\ calls < MaxCalls
  /\ \E l \in Levels :
       /\ should_log(l)
       /\ api' = [name |-> "log_f", lvl |-> l]
  /\ \E input \in LogInputs : EnterPrintf(input)
  /\ outcome' = NoOutcome
  /\ calls' = calls + 1
  /\ UNCHANGED <<min_level, fault, facade_vars, fields, sink, errlog>>

\* variant of format_string that returns what stream_printf had written
format_string_partial == result.text

\* logger::format_string: the result of stream_printf, or the placeholder
\* from catch (...)
format_string == IF pc = "thrown" THEN PrintfFormatError ELSE result.text

\* format_string has returned: info(msg)
FormattedReturn ==
  /\ api.name = "log_f"
  /\ pc \in {"done", "thrown"}
  /\ log_impl_with_fields(api.lvl, format_string, <<>>)
  /\ pc' = "idle"
  /\ UNCHANGED <<format, args, pos, arg_index, result, rendered>>
  /\ UNCHANGED <<min_level, fault, facade_vars, fields, api, calls>>

\* fmt(format, args...) calls stream_printf
FmtEnter ==
  /\ pc = "idle"
  /\ calls < MaxCalls
  /\ api' = [name |-> "fmt", lvl |-> 0]
  /\ \E input \in LogInputs : EnterPrintf(input)
  /\ outcome' = NoOutcome
  /\ calls' = calls + 1
  /\ UNCHANGED <<min_level, fault, facade_vars, fields, sink, errlog>>

\* fmt returns the result of stream_printf, or the placeholder from catch (...)
FmtReturn ==
  /\ api.name = "fmt"
  /\ pc \in {"done", "thrown"}
  /\ outcome' = ReturnedText(IF pc = "thrown" THEN FormatError ELSE result.text)
  /\ pc' = "idle"
  /\ UNCHANGED <<format, args, pos, arg_index, result, rendered>>
  /\ UNCHANGED <<min_level, fault, facade_vars, fields, sink, errlog, api, calls>>

LogNext ==
  \/ Next
  \/ SetLevel
  \/ Log
  \/ LogField
  \/ WithField
  \/ FormattedFiltered
  \/ FormattedEnter
  \/ FormattedReturn
  \/ FmtEnter
  \/ FmtReturn

LogSpec == LogInit /\ [][LogNext]_vars

(***************************************************************************)
(* Properties.                                                             *)
(***************************************************************************)
\* the printf grammar %[0-]*[0-9]*(.[0-9]*)?c with c a conversion character:
\* the index of c when the text at the '%' at p matches it, else 0
WellFormedEnd(s, p) ==
  LET a == SkipIn(s, p + 1, FlagChars)
      b == SkipIn(s, a, Digits)
      c == IF b <= Len(s) /\ s[b] = "." THEN SkipIn(s, b + 1, Digits) ELSE b
  IN IF c <= Len(s) /\ s[c] \in ConvChars THEN c ELSE 0

\* the next '%' at or after the cursor (End when there is none)
NextPercent == FindChar(format, pos, "%")

Scanning == pc = "scan" /\ pos < End

AtEscape == NextPercent + 1 < End /\ format[NextPercent + 1] = "%"

AtWellFormed == NextPercent < End /\ WellFormedEnd(format, NextPercent) # 0

SurplusSpecifierCopied ==
  [][ (Scanning /\ AtWellFormed /\ arg_index >= Len(args)) =>
        /\ result' = Write(result, SubSeq(format, pos, WellFormedEnd(format, NextPercent)))
        /\ arg_index' = arg_index
        /\ rendered' = rendered
        /\ pos' = WellFormedEnd(format, NextPercent) + 1
        /\ pc' = "scan"
    ]_vars

\* C2 witness: one argument, two specifiers; the second one is in the output as written
SpecifierLeftRaw ==
  /\ pc = "done"
  /\ Len(args) = 1
  /\ Len(rendered) = 1
  /\ rendered[1].start = 1
  /\ rendered[1].stop < Len(format)
  /\ WellFormedEnd(format, rendered[1].stop + 1) = Len(format)
  /\ result.text = rendered[1].out \o SubSeq(format, rendered[1].stop + 1, Len(format))

\* C3: in the general path a `%%` met by the scan emits the text before it and
\* one `%`, moves the cursor two characters past the first `%` and consumes no argument.
EscapeEmitsOnePercent ==
  [][ (Scanning /\ AtEscape) =>
        /\ result' = [result EXCEPT
                        !.text = @ \o SubSeq(format, pos, NextPercent - 1) \o <<"%">>]
        /\ pos' = NextPercent + 2
        /\ arg_index' = arg_index
        /\ rendered' = rendered
        /\ pc' = "scan"
    ]_vars

\* C3 witness: `%%` followed by a specifier, which is rendered with the first argument
EscapeBeforeSpecifier ==
  /\ pc = "done"
  /\ Len(format) >= 4
  /\ format[1] = "%" /\ format[2] = "%"
  /\ Len(rendered) = 1
  /\ rendered[1].start = 3
  /\ rendered[1].arg = 1
  /\ result.text = <<"%">> \o rendered[1].out

\* the template with each `%%` pair, taken left to right without overlap,
\* replaced by one `%`
RECURSIVE CollapsePairs(_)
CollapsePairs(t) ==
  IF t = <<>> THEN <<>>
  ELSE IF Len(t) >= 2 /\ t[1] = "%" /\ t[2] = "%"
    THEN <<"%">> \o CollapsePairs(SubSeq(t, 3, Len(t)))
    ELSE <<t[1]>> \o CollapsePairs(Tail(t))

\* C4: with zero arguments the output is the template with its `%%` pairs
\* collapsed and every other character unchanged.
ZeroArgumentCollapse ==
  (pc = "done" /\ args = <<>>) => result.text = CollapsePairs(format)

\* C4 witness: `%%%` with no argument has returned `%%`
PairCollapsedOnce ==
  /\ pc = "done"
  /\ args = <<>>
  /\ format = <<"%", "%", "%">>
  /\ result.text = <<"%", "%">>

\* a '%' at the cursor that is neither `%%` nor the start of a well-formed specifier
AtMalformed == NextPercent < End /\ ~AtEscape /\ WellFormedEnd(format, NextPercent) = 0

\* C5: in the general path a malformed specifier met by the scan (its flags,
\* width and precision are followed by a character that is no conversion
\* character, or it runs off the end of the template) consumes no argument,
\* and the template text the step passes over, the characters after the
\* specifier included, is in the output as written.
MalformedCopiedRaw ==
  [][ (Scanning /\ AtMalformed) =>
        /\ arg_index' = arg_index
        /\ rendered' = rendered
        /\ result'.text = result.text
             \o SubSeq(format, pos, IF pc' = "done" THEN Len(format) ELSE pos' - 1)
    ]_vars

\* C6: stream_printf never leaves by an exception, whatever the template and
\* the arguments are.
NeverThrows == pc # "thrown"

\* the flag characters and the width digits of the specifier text sp
FlagsOf(sp) == SubSeq(sp, 2, SkipIn(sp, 2, FlagChars) - 1)

WidthOf(sp) ==
  SubSeq(sp, SkipIn(sp, 2, FlagChars), SkipIn(sp, SkipIn(sp, 2, FlagChars), Digits) - 1)

\* the text behind the width digits: the precision, if any, and the conversion character
AfterWidth(sp) == SubSeq(sp, SkipIn(sp, SkipIn(sp, 2, FlagChars), Digits), Len(sp))

\* C7: a well-formed specifier with a numeric conversion (d, i, x, X, o, f, F,
\* e, E, c) and no width, met with a non-arithmetic argument, raises no
\* exception, renders exactly stringify(argument) and consumes the argument.
NumericFallback ==
  [][ (/\ Scanning
       /\ AtWellFormed
       /\ arg_index < Len(args)
       /\ format[WellFormedEnd(format, NextPercent)] \in NumericConvs
       /\ WidthOf(SubSeq(format, NextPercent, WellFormedEnd(format, NextPercent))) = <<>>
       /\ ~IsArithmetic(args[arg_index + 1])) =>
        /\ pc' # "thrown"
        /\ result'.text = result.text \o SubSeq(format, pos, NextPercent - 1)
                            \o stringify(args[arg_index + 1])
        /\ arg_index' = arg_index + 1
    ]_vars

\* radix, fill character, alignment, float notation, precision and case flag of a stream
FormatFlags(st) ==
  [base |-> st.base, fill |-> st.fill, left |-> st.adjust = "left",
   ff |-> st.ff, prec |-> st.prec, upper |-> st.upper]

\* C8: a call of format_argument leaves the stream's radix, fill character,
\* alignment, float notation, precision and case flag as they were before it,
\* and the text it writes is the text the same specifier and argument give on
\* a fresh stream, whatever was rendered earlier.
NoStateLeak ==
  [][ Len(rendered') > Len(rendered) =>
        /\ FormatFlags(result') = FormatFlags(result)
        /\ rendered'[Len(rendered')].out =
             format_argument(NewStream, args[rendered'[Len(rendered')].arg],
                             SubSeq(format, rendered'[Len(rendered')].start,
                                    rendered'[Len(rendered')].stop)).st.text
    ]_vars

\* the text of the k-th rendered specifier and the argument bound to it
SpecOf(k) == SubSeq(format, rendered[k].start, rendered[k].stop)

ArgOf(k) == args[rendered[k].arg]

\* decimal, hex or octal text of the integer v for the conversion character c
IntText(v, c) ==
  IF c \in {"d", "i"} THEN DecText(v)
  ELSE DigitsText(U64Digits(v, IF c = "o" THEN 8 ELSE 16), c = "X")

\* the k-th rendered specifier is `%`, the flags fl, a width and one of d, x, X, o,
\* its argument is an integer and the width is at least the length of its text
IntWidthCase(k, fl) ==
  /\ ArgOf(k).k = "int"
  /\ FlagsOf(SpecOf(k)) = fl
  /\ WidthOf(SpecOf(k)) # <<>>
  /\ AfterWidth(SpecOf(k)) \in {<<"d">>, <<"x">>, <<"X">>, <<"o">>}
  /\ Stoi(WidthOf(SpecOf(k))) >= Len(IntText(ArgOf(k).v, SpecOf(k)[Len(SpecOf(k))]))

\* the padding that fills the text t to the width of the k-th rendered specifier
PadOf(k, t, c) == Rep(c, Stoi(WidthOf(SpecOf(k))) - Len(t))

\* C9: for an integer v and a width w no smaller than the length of v's text,
\* `%0{w}d` renders exactly w characters, the text behind a fill of zeros,
\* `%{w}d` renders the text behind leading spaces and `%-{w}d` renders the text
\* followed by spaces, each of total length w; likewise x, X and o with the
\* hex or octal text.
WidthPadding ==
  \A k \in 1..Len(rendered) :
    LET t == IntText(ArgOf(k).v, SpecOf(k)[Len(SpecOf(k))])
    IN /\ IntWidthCase(k, <<"0">>) =>
            /\ Len(rendered[k].out) = Stoi(WidthOf(SpecOf(k)))
            /\ rendered[k].out = PadOf(k, t, "0") \o t
       /\ IntWidthCase(k, <<>>) =>
            /\ Len(rendered[k].out) = Stoi(WidthOf(SpecOf(k)))
            /\ rendered[k].out = PadOf(k, t, " ") \o t
       /\ IntWidthCase(k, <<"-">>) =>
            /\ Len(rendered[k].out) = Stoi(WidthOf(SpecOf(k)))
            /\ rendered[k].out = t \o PadOf(k, t, " ")

\* C9 witness: `%-12x` of 42 has returned `2a` and ten spaces
LeftAlignedHex ==
  /\ pc = "done"
  /\ format = <<"%", "-", "1", "2", "x">>
  /\ args = <<IntVal(42)>>
  /\ IntWidthCase(1, <<"-">>)
  /\ result.text = <<"2", "a">> \o Rep(" ", 10)

\* the k-th rendered specifier carries both flags and a width, on one of the
\* conversions d, i, x, X, o, f, F
BothFlagsCase(k) ==
  /\ "0" \in Range(FlagsOf(SpecOf(k)))
  /\ "-" \in Range(FlagsOf(SpecOf(k)))
  /\ WidthOf(SpecOf(k)) # <<>>
  /\ Stoi(WidthOf(SpecOf(k))) > 0
  /\ SpecOf(k)[Len(SpecOf(k))] \in {"d", "i", "x", "X", "o", "f", "F"}

\* what the k-th rendered specifier gives for its argument without flags and
\* width, on the stream as it was before the call
Unpadded(k) ==
  format_argument(rendered[k].state, ArgOf(k), <<"%">> \o AfterWidth(SpecOf(k))).st.text

WellFormedCase(k) == WellFormedEnd(format, rendered[k].start) = rendered[k].stop

\* the k-th rendered specifier is well formed with no width and a conversion
\* character of cs, and its argument is arithmetic
FloatCase(k, cs) ==
  /\ WellFormedCase(k)
  /\ IsArithmetic(ArgOf(k))
  /\ WidthOf(SpecOf(k)) = <<>>
  /\ SpecOf(k)[Len(SpecOf(k))] \in cs

\* the precision digits of the specifier text sp (none without a '.')
PrecOf(sp) == SubSeq(AfterWidth(sp), 2, Len(AfterWidth(sp)) - 1)

\* the number of characters of t behind its decimal point, 0 without one
FracDigits(t) == IF "." \in Range(t) THEN Len(t) - FindChar(t, 1, ".") ELSE 0

DigitOf(c, base) ==
  IF \E i \in 1..base : LowerDigits[i] = c \/ UpperDigits[i] = c
    THEN (CHOOSE i \in 1..base : LowerDigits[i] = c \/ UpperDigits[i] = c) - 1
    ELSE -1

\* the text t read as a numeral of the base; -1 when t is empty or holds a
\* character that is no digit of the base (a sign, a prefix, padding)
RECURSIVE ReadNumeral(_, _)
ReadNumeral(t, base) ==
  IF t = <<>> \/ \E i \in 1..Len(t) : DigitOf(t[i], base) = -1 THEN -1
  ELSE IF Len(t) = 1 THEN DigitOf(t[1], base)
  ELSE base * ReadNumeral(SubSeq(t, 1, Len(t) - 1), base) + DigitOf(t[Len(t)], base)

\* the k-th rendered specifier is well formed with no width and a conversion
\* character of cs, and its argument is a non-negative integer
RadixCase(k, cs) ==
  /\ WellFormedCase(k)
  /\ ArgOf(k).k = "int"
  /\ ArgOf(k).v >= 0
  /\ WidthOf(SpecOf(k)) = <<>>
  /\ SpecOf(k)[Len(SpecOf(k))] \in cs

\* C12: the text `%x` or `%X` renders for a non-negative integer v, read as a
\* base-16 numeral, is v, and the text `%o` renders, read as a base-8 numeral,
\* is v; the text consists of digits of the base only (no sign, no prefix) and
\* has no leading zero.
RadixRoundTrip ==
  \A k \in 1..Len(rendered) :
    /\ RadixCase(k, {"x", "X"}) => ReadNumeral(rendered[k].out, 16) = ArgOf(k).v
    /\ RadixCase(k, {"o"}) => ReadNumeral(rendered[k].out, 8) = ArgOf(k).v
    /\ RadixCase(k, {"x", "X", "o"}) =>
         (rendered[k].out[1] = "0" => rendered[k].out = <<"0">>)

\* C12 witness: `%X` of 255 has returned "FF", which reads back as 255
HexReadsBack ==
  /\ pc = "done"
  /\ format = <<"%", "X">>
  /\ args = <<IntVal(255)>>
  /\ RadixCase(1, {"X"})
  /\ result.text = <<"F", "F">>
  /\ ReadNumeral(result.text, 16) = 255

\* the text t in the field of the k-th rendered specifier: spaces up to its
\* width, behind t with the `-` flag and in front of it without
SpacePadded(k, t) ==
  IF "-" \in Range(FlagsOf(SpecOf(k))) THEN t \o PadOf(k, t, " ") ELSE PadOf(k, t, " ") \o t

\* C13: a numeric conversion with a width on a non-arithmetic argument renders
\* stringify(argument) padded with spaces to the width, right-aligned by
\* default and left-aligned with the `-` flag.
FallbackPadded ==
  \A k \in 1..Len(rendered) :
    (/\ WellFormedCase(k)
     /\ ~IsArithmetic(ArgOf(k))
     /\ SpecOf(k)[Len(SpecOf(k))] \in NumericConvs
     /\ WidthOf(SpecOf(k)) # <<>>) =>
      rendered[k].out = SpacePadded(k, stringify(ArgOf(k)))

\* C14: conversion c on an arithmetic argument renders the one character whose
\* code is the argument, in a field of the width: spaces in front by default,
\* behind with the `-` flag, never zeros.
CharHonorsWidth ==
  \A k \in 1..Len(rendered) :
    (/\ WellFormedCase(k)
     /\ IsArithmetic(ArgOf(k))
     /\ SpecOf(k)[Len(SpecOf(k))] = "c") =>
      rendered[k].out =
        IF WidthOf(SpecOf(k)) = <<>> THEN <<ToChar(ArgOf(k))>>
        ELSE SpacePadded(k, <<ToChar(ArgOf(k))>>)

\* C15: for the text of a rendered well-formed specifier, parse yields
\* precision -1 when the text has no `.`, 0 when a `.` is followed by no digit,
\* and the decimal value of the digits behind the `.` otherwise.
DotMeansPrecisionZero ==
  \A k \in 1..Len(rendered) :
    WellFormedCase(k) =>
      parse(SpecOf(k)).precision =
        IF AfterWidth(SpecOf(k))[1] # "." THEN -1
        ELSE IF PrecOf(SpecOf(k)) = <<>> THEN 0
        ELSE Stoi(PrecOf(SpecOf(k)))

\* the scan is at a plain `%s` with an argument left
AtPlainString ==
  /\ Scanning
  /\ NextPercent + 1 < End
  /\ format[NextPercent + 1] = "s"
  /\ arg_index < Len(args)

\* the text the resolution order of stringify assigns to a value: a string and
\* a value convertible to a text view give their text, an arithmetic value its
\* decimal to_string text, a value with stream insertion what it writes, and
\* any other value the sentinel
RuleText(value) ==
  CASE value.k \in {"str", "cstr"} -> value.text
    [] value.k \in {"int", "bool"} -> DecText(value.v)
    [] value.k = "float" -> FixedText(ToDouble(value), 6)
    [] value.k = "obj" -> value.text
    [] OTHER -> Unprintable

\* C16: stringify is total and resolves in the fixed order: for every value
\* whose stream insertion does not throw, a plain `%s` returns and renders
\* the text the resolution order assigns to the value.
StringifyTotal ==
  [][ (AtPlainString /\ ~stringify_throws(args[arg_index + 1])) =>
        /\ pc' = "scan"
        /\ result'.text = result.text \o SubSeq(format, pos, NextPercent - 1)
                            \o RuleText(args[arg_index + 1])
    ]_vars

\* C17: stringify of a null C-string pointer returns the literal "null": a
\* plain `%s` with a null pointer returns and renders "null".
NullPointerIsNull ==
  [][ (AtPlainString /\ args[arg_index + 1].k = "cstr" /\ args[arg_index + 1].null) =>
        /\ pc' = "scan"
        /\ result'.text = result.text \o SubSeq(format, pos, NextPercent - 1)
                            \o <<"n", "u", "l", "l">>
    ]_vars

\* this step ends a call of a logging method: a plain one, one with a field
\* whose value could be stringified, or a `*_f` one (filtered at once, or
\* coming back from format_string)
LogCallEnds ==
  \/ calls' = calls + 1 /\ api'.name \in {"log", "log_field"} /\ outcome'.kind = "returned"
  \/ calls' = calls + 1 /\ api'.name = "log_f" /\ pc' = "idle"
  \/ api.name = "log_f" /\ pc \in {"done", "thrown"} /\ pc' = "idle"

\* the level l passes the run-time and the compile-time filter
Passes(l) == l <= min_level /\ l <= REDLOG_MIN_LEVEL

\* C18: the global level is info until set_level is called; a call of a
\* logging method at level l (plain, with fields or `*_f`) delivers exactly
\* one entry, of level l, to the sink when l is at most the global minimum
\* level and at most REDLOG_MIN_LEVEL (and the logger's formatter and sink do
\* not throw), and delivers nothing otherwise; a `*_f` method runs
\* stream_printf only for a level that passes.
LevelFilter ==
  [][ /\ calls = 0 => min_level = 3
      /\ LogCallEnds =>
           IF Passes(api'.lvl) /\ fault = "none"
             THEN /\ Len(sink') = Len(sink) + 1
                  /\ SubSeq(sink', 1, Len(sink)) = sink
                  /\ sink'[Len(sink')].lvl = api'.lvl
             ELSE sink' = sink
      /\ (calls' = calls + 1 /\ api'.name = "log_f" /\ pc' # "idle") => Passes(api'.lvl)
    ]_vars

\* C18 witness: after set_level(debug) a trace entry, which the initial
\* level would have filtered, has been delivered
TraceAfterSetLevel ==
  /\ calls = 2
  /\ pc = "idle"
  /\ min_level = 6
  /\ api.name \in {"log", "log_f"}
  /\ Len(sink) = 1
  /\ sink[1].lvl = 5

\* C19: no exception thrown while a value is stringified for the logging API
\* reaches the caller.
NoPropagation == outcome.kind # "exception"

\* C20: fmt returns the result of stream_printf, or "[format_error]" when
\* stream_printf raises; a `*_f` method logs the result of stream_printf, or
\* "[printf_format_error]" when it raises; when the formatter or the sink
\* raises inside a logging call, the message is reported on stderr; in all
\* these cases the call returns to its caller.
WrappersCatch ==
  [][ /\ (api.name = "fmt" /\ pc \in {"done", "thrown"} /\ pc' = "idle") =>
           outcome' = ReturnedText(IF pc = "thrown" THEN FormatError ELSE result.text)
      /\ (api.name = "log_f" /\ pc \in {"done", "thrown"} /\ pc' = "idle") =>
           /\ outcome' = ReturnedVoid
           /\ (Passes(api.lvl) /\ fault = "none") =>
                sink'[Len(sink')].msg = IF pc = "thrown" THEN PrintfFormatError ELSE result.text
      /\ (LogCallEnds /\ Passes(api'.lvl) /\ fault # "none") =>
           /\ outcome' = ReturnedVoid
           /\ sink' = sink
           /\ Len(errlog') = Len(errlog) + 1
    ]_vars

\* C20 witness: fmt has returned "[format_error]", and an `*_f` call has
\* logged "[printf_format_error]"
PlaceholdersSeen ==
  /\ calls = 2
  /\ pc = "idle"
  /\ api.name = "fmt"
  /\ outcome = ReturnedText(FormatError)
  /\ Len(sink) = 1
  /\ sink[1].msg = PrintfFormatError

(***************************************************************************)
(* Logger objects.  A logger is a value: name_, fields_ and two shared     *)
(* pointers, formatter_ and sink_, modelled as indices.  The constructor   *)
(* logger(name) makes a default_formatter and a console_sink of its own;   *)
(* with_name, with_field and with_fields copy the receiver.                *)
(***************************************************************************)
MaxLoggers == 3

MaxRecords == 1

\* the names passed to logger(name) and to with_name(name)
LoggerNames == { <<>> }

ScopeNames == { <<"b">> }

\* field::field(k, v): the value is stringified at construction
Field(k, v) == [key |-> k, value |-> stringify(v)]

\* the field a caller passes to with_field
CallerFields == { Field(<<"k">>, IntVal(42)) }

\* the field list a caller passes to with_fields; both fields have the key
\* of the field passed to with_field
CallerFieldLists ==
  { << Field(<<"k">>, StrVal(<<"h", "i">>)), Field(<<"k">>, IntVal(42)) >> }

\* the themes a caller passes to set_theme
Themes == { plain }

\* field_set::add
add(fs, f) == Append(fs, f)

\* field_set::merge of another object
merge(fs, other) == fs \o other

\* variant of with_name that renames the receiver as well
with_name_in_place(lgs, i, n) ==
  LET renamed == IF lgs[i].name_ = <<>> THEN n ELSE lgs[i].name_ \o <<".">> \o n
  IN Append([lgs EXCEPT ![i].name_ = renamed], [lgs[i] EXCEPT !.name_ = renamed])

\* logger::with_name: the heap with the returned logger added
with_name(lgs, i, n) ==
  LET this == lgs[i]
      renamed == IF this.name_ = <<>> THEN n ELSE this.name_ \o <<".">> \o n
  IN Append(lgs, [this EXCEPT !.name_ = renamed])

\* logger::with_field, for a value that stringify accepts
with_field(lgs, i, f) ==
  LET this == lgs[i]
  IN Append(lgs, [this EXCEPT !.fields_ = add(this.fields_, f)])

\* logger::with_fields(const field_set&) and with_fields(Fields&&...)
with_fields(lgs, i, new_fields) ==
  LET this == lgs[i]
  IN Append(lgs, [this EXCEPT !.fields_ = merge(this.fields_, new_fields)])

\* a program that has constructed nothing yet; the colour detection of the
\* process is either outcome
ObjInit ==
  /\ format = <<>>
  /\ args = <<>>
  /\ pc = "idle"
  /\ pos = 1
  /\ arg_index = 0
  /\ result = NewStream
  /\ rendered = <<>>
  /\ LoggerInit
  /\ fault = "none"
  /\ api = Idle
  /\ use_color \in BOOLEAN
  /\ loggers = <<>>
  /\ sets = <<>>
  /\ formatters = <<>>
  /\ theme_ = default_theme
  /\ theme_mutex_ = Unlocked
  /\ threads = <<>>
  /\ completed = NoneCompleted
  /\ file_sinks = <<>>
  /\ files = <<>>

\* what the actions on logger objects leave alone
ObjFrame ==
  /\ UNCHANGED printf_vars
  /\ UNCHANGED <<min_level, fault, fields, errlog, outcome, calls>>
  /\ UNCHANGED <<sets, use_color, theme_mutex_, threads, completed, file_sinks, files>>

\* the call made last on the logger objects: its receiver (an index into
\* loggers, 0 for none) and its argument
ObjCall(name, lvl, this, arg) == [name |-> name, lvl |-> lvl, this |-> this, arg |-> arg]

\* logger(name): default_formatter() copies the global theme
MakeLogger ==
  /\ Len(loggers) < MaxLoggers
  /\ \E n \in LoggerNames :
       /\ loggers' = Append(loggers, [name_ |-> n, fields_ |-> <<>>,
                                      formatter_ |-> Len(formatters) + 1,
                                      sink_ |-> Len(formatters) + 1])
       /\ api' = ObjCall("logger", 0, 0, n)
  /\ formatters' = Append(formatters, theme_)
  /\ UNCHANGED <<theme_, sink>>
  /\ ObjFrame

\* loggers[i].with_name(n)
WithName ==
  /\ Len(loggers) < MaxLoggers
  /\ \E i \in 1..Len(loggers), n \in ScopeNames :
       /\ loggers' = with_name(loggers, i, n)
       /\ api' = ObjCall("with_name", 0, i, n)
  /\ UNCHANGED <<formatters, theme_, sink>>
  /\ ObjFrame

\* loggers[i].with_field(key, value)
LoggerWithField ==
  /\ Len(loggers) < MaxLoggers
  /\ \E i \in 1..Len(loggers), f \in CallerFields :
       /\ loggers' = with_field(loggers, i, f)
       /\ api' = ObjCall("with_field", 0, i, f)
  /\ UNCHANGED <<formatters, theme_, sink>>
  /\ ObjFrame

\* loggers[i].with_fields(fields)
LoggerWithFields ==
  /\ Len(loggers) < MaxLoggers
  /\ \E i \in 1..Len(loggers), fs \in CallerFieldLists :
       /\ loggers' = with_fields(loggers, i, fs)
       /\ api' = ObjCall("with_fields", 0, i, fs)
  /\ UNCHANGED <<formatters, theme_, sink>>
  /\ ObjFrame

\* set_theme(t), by the only thread
SetTheme ==
  /\ \E t \in Themes :
       /\ theme_ # t
       /\ theme_' = t
       /\ api' = ObjCall("set_theme", 0, 0, t)
  /\ UNCHANGED <<loggers, formatters, sink>>
  /\ ObjFrame

\* the byte \033
Esc == "ESC"

\* detail::colorize
colorize(text, fg_color, bg_color) ==
  IF ~use_color \/ (fg_color = NoColor /\ bg_color = NoColor) THEN text
  ELSE <<Esc, "[">>
       \o (IF fg_color # NoColor THEN DecText(fg_color) ELSE <<>>)
       \o (IF bg_color # NoColor
             THEN (IF fg_color # NoColor THEN <<";">> ELSE <<>>) \o DecText(bg_color)
             ELSE <<>>)
       \o <<"m">> \o text \o <<Esc, "[", "0", "m">>

\* level_short_name
level_short_name(l) ==
  IF l >= 0 /\ l < 9
    THEN << <<"c", "r", "t">>, <<"e", "r", "r">>, <<"w", "r", "n">>, <<"i", "n", "f">>,
            <<"v", "r", "b">>, <<"t", "r", "c">>, <<"d", "b", "g">>, <<"p", "e", "d">>,
            <<"a", "y", "g">> >>[l + 1]
    ELSE <<"u", "n", "k">>

RECURSIVE MaxNameWidth(_)
MaxNameWidth(i) ==
  IF i < 0 THEN 0 ELSE Max(MaxNameWidth(i - 1), Len(level_short_name(i)))

\* detail::get_max_level_text_width
get_max_level_text_width == MaxNameWidth(8) + 2

\* default_formatter::format: the source component
SourceComponent(theme, source_part) ==
  colorize(source_part, theme.source_color, theme.source_bg_color)
    \o Rep(" ", Max(1, theme.source_width - Len(source_part)))

\* default_formatter::format: the level component
PadLevel(theme, level_part) ==
  IF theme.pad_level_text /\ get_max_level_text_width - Len(level_part) > 0
    THEN level_part \o Rep(" ", get_max_level_text_width - Len(level_part))
    ELSE level_part

LevelComponent(theme, l) ==
  colorize(PadLevel(theme, <<"[">> \o level_short_name(l) \o <<"]">>),
           theme.level_color[l + 1], theme.level_bg_color[l + 1]) \o <<" ">>

\* std::left << std::setw(w) << text
LeftInWidth(text, w) == text \o Rep(" ", Max(0, w - Len(text)))

\* default_formatter::format: the message component
MessageComponent(theme, message) ==
  LeftInWidth(colorize(message, theme.message_color, NoColor), theme.message_fixed_width)

\* default_formatter::format: one field
FieldText(theme, f) ==
  colorize(f.key, theme.field_key_color, NoColor) \o <<"=">>
    \o colorize(f.value, theme.field_value_color, NoColor)

\* default_formatter::format: the loop over entry.fields.fields()
RECURSIVE FieldsLoop(_, _, _)
FieldsLoop(theme, fs, first) ==
  IF fs = <<>> THEN <<>>
  ELSE (IF first THEN <<>> ELSE <<" ">>) \o FieldText(theme, Head(fs))
         \o FieldsLoop(theme, Tail(fs), FALSE)

\* default_formatter::format: the fields component
FieldsComponent(theme, fs) ==
  IF fs # <<>> THEN <<" ">> \o FieldsLoop(theme, fs, TRUE) ELSE <<>>

\* default_formatter::format
default_format(theme, entry) ==
  (IF entry.source # <<>>
     THEN SourceComponent(theme, <<"[">> \o entry.source \o <<"]">>)
     ELSE <<>>)
    \o LevelComponent(theme, entry.level_val)
    \o MessageComponent(theme, entry.message)
    \o FieldsComponent(theme, entry.fields.fields_)

\* variant of log_entry_of that puts the fields of the call first
log_entry_call_first(this, lvl, msg, call_fields) ==
  [level_val |-> lvl, message |-> msg, source |-> this.name_,
   fields |-> [fields_ |-> merge(call_fields, this.fields_)]]

\* log_impl_with_fields: field_set entry_fields = fields_; each field of the
\* call added in turn; log_entry entry(lvl, msg, name_, entry_fields)
log_entry_of(this, lvl, msg, call_fields) ==
  [level_val |-> lvl, message |-> msg, source |-> this.name_,
   fields |-> [fields_ |-> merge(this.fields_, call_fields)]]

\* variant of formatter_theme that reads the global theme when it formats
formatter_theme_global(id) == theme_

\* default_formatter::theme_ of the formatter a logger points to
formatter_theme(id) == formatters[id]

\* formatter_->format(entry); sink_->write(formatted)
Written(this, entry) ==
  [sink_ |-> this.sink_, entry |-> entry,
   text |-> default_format(formatter_theme(this.formatter_), entry)]

\* the levels and the fields of the logging calls made on logger objects
ObjLevels == {3, 5}

CallFieldLists == { <<>>, << Field(<<"j">>, BoolVal(TRUE)) >> }

\* loggers[i].info(msg, fields...) and the other levels
LoggerLog ==
  /\ Len(sink) < MaxRecords
  /\ \E i \in 1..Len(loggers), lvl \in ObjLevels, cf \in CallFieldLists :
       /\ IF ~should_log(lvl)
            THEN sink' = sink
            ELSE sink' = Append(sink, Written(loggers[i], log_entry_of(loggers[i], lvl, Message, cf)))
       /\ api' = ObjCall("log", lvl, i, cf)
  /\ UNCHANGED <<loggers, formatters, theme_>>
  /\ ObjFrame

ObjNext ==
  \/ MakeLogger
  \/ WithName
  \/ LoggerWithField
  \/ LoggerWithFields
  \/ SetTheme
  \/ LoggerLog

ObjSpec == ObjInit /\ [][ObjNext]_vars

(***************************************************************************)
(* Properties of the logger objects.                                       *)
(***************************************************************************)
\* this step is a call of the method `name` that returned a new logger
Derives(name) == api'.name = name /\ Len(loggers') = Len(loggers) + 1

\* the logger the step returned, and the receiver as it was before the call
Returned_ == loggers'[Len(loggers')]

Receiver == loggers[api'.this]

\* C21: loggers are immutable: with_name, with_field and with_fields leave
\* the receiver and every other logger constructed so far as they were;
\* with_name(n) on a logger named p returns a logger named n when p is empty
\* and p.n otherwise, with the receiver's fields; with_field and with_fields
\* return a logger with the receiver's name whose fields are the receiver's
\* followed by the new ones.
LoggersImmutable ==
  [][ /\ Len(loggers') >= Len(loggers)
      /\ \A i \in 1..Len(loggers) : loggers'[i] = loggers[i]
      /\ Derives("with_name") =>
           /\ Returned_.name_ = IF Receiver.name_ = <<>> THEN api'.arg
                                ELSE Receiver.name_ \o <<".">> \o api'.arg
           /\ Returned_.fields_ = Receiver.fields_
      /\ Derives("with_field") =>
           /\ Returned_.name_ = Receiver.name_
           /\ Returned_.fields_ = Receiver.fields_ \o <<api'.arg>>
      /\ Derives("with_fields") =>
           /\ Returned_.name_ = Receiver.name_
           /\ Returned_.fields_ = Receiver.fields_ \o api'.arg
    ]_vars

\* C21 witness: with_name on the logger "b", itself derived from an unnamed
\* logger, has returned "b.b"; the two receivers are as they were
ScopedChain ==
  /\ Len(loggers) = 3
  /\ api.name = "with_name"
  /\ api.this = 2
  /\ loggers[1] = [name_ |-> <<>>, fields_ |-> <<>>, formatter_ |-> 1, sink_ |-> 1]
  /\ loggers[2].name_ = <<"b">>
  /\ loggers[3].name_ = <<"b", ".", "b">>

(***************************************************************************)
(* field_set objects.  add and merge change the receiver; with_field and   *)
(* with_fields copy it.  merge passes iterators of the argument's vector   *)
(* to fields_.insert, which std::vector defines only when they are not     *)
(* iterators into fields_ itself.                                          *)
(***************************************************************************)
MaxSets == 2

MaxFields == 2

\* the fields a caller constructs; both have the same key
SetFields == { Field(<<"k">>, IntVal(42)), Field(<<"k">>, StrVal(<<"h", "i">>)) }

\* field_set() and field_set(std::initializer_list<field>)
InitializerLists ==
  { <<>>, << Field(<<"k">>, StrVal(<<"h", "i">>)), Field(<<"k">>, IntVal(42)) >> }

\* a field whose strings have been moved from
MovedFrom == [key |-> <<>>, value |-> <<>>]

\* fs.merge(fs): fields_.insert(fields_.end(), fields_.begin(), fields_.end())
\* is undefined; with spare capacity the elements are copied in place, and
\* when the vector reallocates the old elements are moved to the new storage
\* before the range is copied from them
merge_self(fs) == { fs \o fs, fs \o [i \in 1..Len(fs) |-> MovedFrom] }

\* field_set::with_field: the copy, with f added
set_with_field(fs, f) == add(fs, f)

\* field_set::with_fields: the copy, with other merged into it
set_with_fields(fs, other) == merge(fs, other)

\* field_set::empty
empty(fs) == fs = <<>>

\* field_set::size
size(fs) == Len(fs)

\* a program that has constructed no field_set yet
SetInit ==
  /\ format = <<>>
  /\ args = <<>>
  /\ pc = "idle"
  /\ pos = 1
  /\ arg_index = 0
  /\ result = NewStream
  /\ rendered = <<>>
  /\ LoggerInit
  /\ fault = "none"
  /\ api = Idle
  /\ FacadeInit

\* what the actions on field_set objects leave alone
SetFrame ==
  /\ UNCHANGED printf_vars
  /\ UNCHANGED <<min_level, fault, fields, sink, errlog, calls>>
  /\ UNCHANGED <<loggers, formatters, theme_, use_color, theme_mutex_, threads,
                 completed, file_sinks, files>>

\* field_set fs; or field_set fs{f, g};
MakeSet ==
  /\ Len(sets) < MaxSets
  /\ \E fs \in InitializerLists :
       /\ sets' = Append(sets, fs)
       /\ api' = ObjCall("field_set", 0, 0, fs)
  /\ outcome' = ReturnedVoid
  /\ SetFrame

\* sets[i].add(f)
SetAdd ==
  /\ \E i \in 1..Len(sets), f \in SetFields :
       /\ Len(sets[i]) < MaxFields
       /\ sets' = [sets EXCEPT ![i] = add(sets[i], f)]
       /\ api' = ObjCall("add", 0, i, f)
  /\ outcome' = ReturnedVoid
  /\ SetFrame

\* sets[i].merge(sets[j]); j may be i
SetMerge ==
  /\ \E i \in 1..Len(sets), j \in 1..Len(sets) :
       /\ Len(sets[i]) + Len(sets[j]) <= MaxFields
       /\ IF i = j
            THEN \E merged \in merge_self(sets[i]) : sets' = [sets EXCEPT ![i] = merged]
            ELSE sets' = [sets EXCEPT ![i] = merge(sets[i], sets[j])]
       /\ api' = ObjCall("merge", 0, i, j)
  /\ outcome' = ReturnedVoid
  /\ SetFrame

\* sets[i].with_field(f)
SetWithField ==
  /\ Len(sets) < MaxSets
  /\ \E i \in 1..Len(sets), f \in SetFields :
       /\ Len(sets[i]) < MaxFields
       /\ sets' = Append(sets, set_with_field(sets[i], f))
       /\ api' = ObjCall("with_field", 0, i, f)
  /\ outcome' = ReturnedVoid
  /\ SetFrame

\* sets[i].with_fields(sets[j]); j may be i
SetWithFields ==
  /\ Len(sets) < MaxSets
  /\ \E i \in 1..Len(sets), j \in 1..Len(sets) :
       /\ Len(sets[i]) + Len(sets[j]) <= MaxFields
       /\ sets' = Append(sets, set_with_fields(sets[i], sets[j]))
       /\ api' = ObjCall("with_fields", 0, i, j)
  /\ outcome' = ReturnedVoid
  /\ SetFrame

\* sets[i].size() and sets[i].empty()
SetObserve ==
  /\ \E i \in 1..Len(sets) :
       /\ outcome' = [kind |-> "returned", text |-> <<>>,
                      size |-> size(sets[i]), empty |-> empty(sets[i])]
       /\ api' = ObjCall("size", 0, i, <<>>)
  /\ UNCHANGED sets
  /\ SetFrame

SetNext ==
  \/ MakeSet
  \/ SetAdd
  \/ SetMerge
  \/ SetWithField
  \/ SetWithFields
  \/ SetObserve

SetSpec == SetInit /\ [][SetNext]_vars

\* C22: add and merge append to the receiver and change no other set: after
\* add(f) the receiver is its old fields followed by f, after merge(o) its
\* old fields followed by o's; with_field and with_fields change no set and
\* return the receiver's fields followed by the added ones; empty() holds
\* exactly when size() is 0, and size() is the number of fields.
FieldSetAppends ==
  [][ /\ Len(sets') >= Len(sets)
      /\ \A i \in 1..Len(sets) :
           \/ sets'[i] = sets[i]
           \/ /\ api'.name = "add"
              /\ api'.this = i
              /\ sets'[i] = sets[i] \o <<api'.arg>>
              /\ Len(sets') = Len(sets)
           \/ /\ api'.name = "merge"
              /\ api'.this = i
              /\ sets'[i] = sets[i] \o sets[api'.arg]
              /\ Len(sets'[i]) = Len(sets[i]) + Len(sets[api'.arg])
              /\ Len(sets') = Len(sets)
      /\ (api'.name = "with_field" /\ Len(sets') = Len(sets) + 1) =>
           sets'[Len(sets')] = sets[api'.this] \o <<api'.arg>>
      /\ (api'.name = "with_fields" /\ Len(sets') = Len(sets) + 1) =>
           sets'[Len(sets')] = sets[api'.this] \o sets[api'.arg]
      /\ api'.name = "size" =>
           /\ outcome'.size = Len(sets[api'.this])
           /\ outcome'.empty = (outcome'.size = 0)
    ]_vars

\* this step is a logging call on a logger object that wrote a record
Delivers == api'.name = "log" /\ Len(sink') = Len(sink) + 1

\* the record the step wrote
Record == sink'[Len(sink')]

\* t ends with s
EndsWith(t, s) ==
  /\ Len(t) >= Len(s)
  /\ SubSeq(t, Len(t) - Len(s) + 1, Len(t)) = s

\* key=value of each field in order, separated by single spaces, after the
\* space that follows the message
RECURSIVE KeyValues(_)
KeyValues(fs) ==
  IF fs = <<>> THEN <<>>
  ELSE <<" ">> \o Head(fs).key \o <<"=">> \o Head(fs).value \o KeyValues(Tail(fs))

\* t between the sequence that selects the colour c and the sequence that
\* resets it, when colours are in use and c is a colour
InColour(t, c) ==
  IF use_color /\ c # NoColor
    THEN <<Esc, "[">> \o DecText(c) \o <<"m">> \o t \o <<Esc, "[", "0", "m">>
    ELSE t

\* as KeyValues, each key in the colour kc and each value in the colour vc
RECURSIVE ColouredKeyValues(_, _, _)
ColouredKeyValues(fs, kc, vc) ==
  IF fs = <<>> THEN <<>>
  ELSE <<" ">> \o InColour(Head(fs).key, kc) \o <<"=">> \o InColour(Head(fs).value, vc)
         \o ColouredKeyValues(Tail(fs), kc, vc)

\* the entry of the record has the logger's name, the level and message of
\* the call, and the logger's fields followed by those of the call; no
\* logger changes
EntryOfCall ==
  /\ Record.entry.source = Receiver.name_
  /\ Record.entry.level_val = api'.lvl
  /\ Record.entry.message = Message
  /\ Record.entry.fields.fields_ = Receiver.fields_ \o api'.arg
  /\ loggers' = loggers

FormatterKeepsTheme ==
  [][ /\ Len(formatters') >= Len(formatters)
      /\ \A id \in 1..Len(formatters) : formatters'[id] = formatters[id]
      /\ Derives("logger") =>
           /\ Returned_.formatter_ = Len(formatters) + 1
           /\ Len(formatters') = Len(formatters) + 1
           /\ formatters'[Returned_.formatter_] = theme_
      /\ (Derives("with_name") \/ Derives("with_field") \/ Derives("with_fields")) =>
           /\ Returned_.formatter_ = Receiver.formatter_
           /\ Returned_.sink_ = Receiver.sink_
           /\ formatters' = formatters
      /\ Delivers =>
           Record.text = default_format(formatters[Receiver.formatter_], Record.entry)
    ]_vars

\* C29 witness: after set_theme(plain) a logger derived from one constructed
\* before it has written a coloured record, and a logger constructed after
\* it has a formatter with the plain theme
OldThemeInUse ==
  /\ use_color
  /\ theme_ = plain
  /\ Len(loggers) = 3
  /\ formatters = <<default_theme, plain>>
  /\ Len(sink) = 1
  /\ sink[1].sink_ = 1
  /\ sink[1].entry.source = <<"b">>
  /\ Esc \in Range(sink[1].text)

(***************************************************************************)
(* Threads.  Each thread makes calls on one shared logger (its sink is the *)
(* console sink) and on the global configuration.  A step is one access    *)
(* to shared state: the atomic load or store of min_level_, a lock or      *)
(* unlock of theme_mutex_, the copy of one part of a theme, the call of    *)
(* sink_->write and the fprintf inside it.                                  *)
(***************************************************************************)
MaxThreads == 2

MaxOps == 3

Threads == 1..MaxThreads

\* the levels of the logging calls, and the levels and themes passed to
\* set_level and set_theme
ThreadLevels == {3, 5}

SetLevels == {2}

SetThemes == { plain, minlog }

\* a thread that is in no call
IdleThread ==
  [pc |-> "idle", op |-> "none", lvl |-> 0, arg |-> default_theme, copy |-> default_theme,
   level |-> 3, formats |-> 0, delivered |-> 0, n |-> 0]

\* the first part of a theme's members (the colours of the levels) and the rest
CopyLevelColours(to, from) ==
  [to EXCEPT !.level_color = from.level_color, !.level_bg_color = from.level_bg_color]

CopyRest(to, from) ==
  [from EXCEPT !.level_color = to.level_color, !.level_bg_color = to.level_bg_color]

\* variant of can_lock_shared that does not wait for the exclusive owner
can_lock_shared_always(m) == TRUE

\* std::shared_lock<std::shared_mutex> lock(theme_mutex_) can be taken
can_lock_shared(m) == m.writer = 0

\* std::unique_lock<std::shared_mutex> lock(theme_mutex_) can be taken
can_lock(m) == m.writer = 0 /\ m.readers = {}

\* variant of f_check_next that formats whatever should_log returned
f_check_next_always(ok) == "f_format"

\* info_f and the other `*_f` methods: return when should_log is false,
\* else call format_string
f_check_next(ok) == IF ok THEN "f_format" ELSE "idle"

\* a program that has constructed one logger and started its threads
ThreadInit ==
  /\ format = <<>>
  /\ args = <<>>
  /\ pc = "idle"
  /\ pos = 1
  /\ arg_index = 0
  /\ result = NewStream
  /\ rendered = <<>>
  /\ LoggerInit
  /\ fault = "none"
  /\ api = Idle
  /\ use_color = FALSE
  /\ loggers = <<>>
  /\ sets = <<>>
  /\ formatters = <<>>
  /\ theme_ = default_theme
  /\ theme_mutex_ = Unlocked
  /\ threads = [t \in Threads |-> IdleThread]
  /\ completed = NoneCompleted
  /\ file_sinks = <<>>
  /\ files = <<>>

\* what no step of a thread changes
ThreadFrame ==
  /\ UNCHANGED printf_vars
  /\ UNCHANGED <<fault, fields, errlog, api, outcome>>
  /\ UNCHANGED <<loggers, sets, formatters, use_color, file_sinks, files>>

\* thread t goes on with the locals `next`
Step(t, next) == threads' = [threads EXCEPT ![t] = next]

\* thread t starts a call
Starts(t) ==
  /\ threads[t].pc = "idle"
  /\ calls < MaxOps
  /\ calls' = calls + 1

\* set_level(l): min_level_.store(l)
ThreadSetLevel(t) ==
  /\ Starts(t)
  /\ \E l \in SetLevels :
       /\ min_level' = l
       /\ completed' = [completed EXCEPT !.level = l]
       /\ Step(t, [threads[t] EXCEPT !.op = "set_level", !.lvl = l, !.n = @ + 1])
  /\ UNCHANGED <<sink, theme_, theme_mutex_>>
  /\ ThreadFrame

\* get_level(): min_level_.load()
ThreadGetLevel(t) ==
  /\ Starts(t)
  /\ Step(t, [threads[t] EXCEPT !.op = "get_level", !.level = min_level, !.n = @ + 1])
  /\ UNCHANGED <<min_level, sink, theme_, theme_mutex_, completed>>
  /\ ThreadFrame

\* log.info(msg) and the other levels are called
LogEnter(t) ==
  /\ Starts(t)
  /\ \E l \in ThreadLevels :
       Step(t, [threads[t] EXCEPT !.op = "log", !.lvl = l, !.pc = "check",
                                  !.formats = 0, !.delivered = 0, !.n = @ + 1])
  /\ UNCHANGED <<min_level, sink, theme_, theme_mutex_, completed>>
  /\ ThreadFrame

\* log.info_f(format, args...) and the other levels: the first should_log
LogfCheck(t) ==
  /\ Starts(t)
  /\ \E l \in ThreadLevels :
       Step(t, [threads[t] EXCEPT !.op = "log_f", !.lvl = l,
                                  !.pc = f_check_next(should_log(l)),
                                  !.formats = 0, !.delivered = 0, !.n = @ + 1])
  /\ UNCHANGED <<min_level, sink, theme_, theme_mutex_, completed>>
  /\ ThreadFrame

\* msg = format_string(format, args...); info(msg) is called
LogfFormat(t) ==
  /\ threads[t].pc = "f_format"
  /\ Step(t, [threads[t] EXCEPT !.pc = "check", !.formats = @ + 1])
  /\ UNCHANGED <<min_level, sink, theme_, theme_mutex_, completed, calls>>
  /\ ThreadFrame

\* log_impl_with_fields: if (!should_log(lvl)) return;
LogCheck(t) ==
  /\ threads[t].pc = "check"
  /\ Step(t, [threads[t] EXCEPT !.pc = IF should_log(threads[t].lvl) THEN "format" ELSE "idle"])
  /\ UNCHANGED <<min_level, sink, theme_, theme_mutex_, completed, calls>>
  /\ ThreadFrame

\* log_impl_with_fields: the entry is built and formatter_->format(entry) returns
LogFormat(t) ==
  /\ threads[t].pc = "format"
  /\ Step(t, [threads[t] EXCEPT !.pc = "write"])
  /\ UNCHANGED <<min_level, sink, theme_, theme_mutex_, completed, calls>>
  /\ ThreadFrame

\* log_impl_with_fields: sink_->write(formatted) is entered; no lock is taken
WriteEnter(t) ==
  /\ threads[t].pc = "write"
  /\ Step(t, [threads[t] EXCEPT !.pc = "writing"])
  /\ UNCHANGED <<min_level, sink, theme_, theme_mutex_, completed, calls>>
  /\ ThreadFrame

\* console_sink::write: std::fprintf(stderr, ...) prints the line, and write returns
WritePrint(t) ==
  /\ threads[t].pc = "writing"
  /\ sink' = Append(sink, [thread |-> t, lvl |-> threads[t].lvl])
  /\ Step(t, [threads[t] EXCEPT !.pc = "idle", !.delivered = @ + 1])
  /\ UNCHANGED <<min_level, theme_, theme_mutex_, completed, calls>>
  /\ ThreadFrame

\* config::set_theme: std::unique_lock lock(theme_mutex_)
SetThemeLock(t) ==
  /\ Starts(t)
  /\ can_lock(theme_mutex_)
  /\ theme_mutex_' = [theme_mutex_ EXCEPT !.writer = t]
  /\ \E th \in SetThemes :
       Step(t, [threads[t] EXCEPT !.op = "set_theme", !.arg = th, !.pc = "set_copy1",
                                  !.n = @ + 1])
  /\ UNCHANGED <<min_level, sink, theme_, completed>>
  /\ ThreadFrame

\* config::set_theme: theme_ = t, the first members
SetThemeCopy1(t) ==
  /\ threads[t].pc = "set_copy1"
  /\ theme_' = CopyLevelColours(theme_, threads[t].arg)
  /\ Step(t, [threads[t] EXCEPT !.pc = "set_copy2"])
  /\ UNCHANGED <<min_level, sink, theme_mutex_, completed, calls>>
  /\ ThreadFrame

\* config::set_theme: theme_ = t, the other members
SetThemeCopy2(t) ==
  /\ threads[t].pc = "set_copy2"
  /\ theme_' = CopyRest(theme_, threads[t].arg)
  /\ Step(t, [threads[t] EXCEPT !.pc = "set_unlock"])
  /\ UNCHANGED <<min_level, sink, theme_mutex_, completed, calls>>
  /\ ThreadFrame

\* config::set_theme: the lock is released and set_theme returns
SetThemeUnlock(t) ==
  /\ threads[t].pc = "set_unlock"
  /\ theme_mutex_' = [theme_mutex_ EXCEPT !.writer = 0]
  /\ completed' = [completed EXCEPT !.theme = threads[t].arg]
  /\ Step(t, [threads[t] EXCEPT !.pc = "idle"])
  /\ UNCHANGED <<min_level, sink, theme_, calls>>
  /\ ThreadFrame

\* config::get_theme: std::shared_lock lock(theme_mutex_)
GetThemeLock(t) ==
  /\ Starts(t)
  /\ can_lock_shared(theme_mutex_)
  /\ theme_mutex_' = [theme_mutex_ EXCEPT !.readers = @ \cup {t}]
  /\ Step(t, [threads[t] EXCEPT !.op = "get_theme", !.pc = "get_copy1", !.n = @ + 1])
  /\ UNCHANGED <<min_level, sink, theme_, completed>>
  /\ ThreadFrame

\* config::get_theme: return theme_, the first members
GetThemeCopy1(t) ==
  /\ threads[t].pc = "get_copy1"
  /\ Step(t, [threads[t] EXCEPT !.pc = "get_copy2", !.copy = CopyLevelColours(@, theme_)])
  /\ UNCHANGED <<min_level, sink, theme_, theme_mutex_, completed, calls>>
  /\ ThreadFrame

\* config::get_theme: return theme_, the other members
GetThemeCopy2(t) ==
  /\ threads[t].pc = "get_copy2"
  /\ Step(t, [threads[t] EXCEPT !.pc = "get_unlock", !.copy = CopyRest(@, theme_)])
  /\ UNCHANGED <<min_level, sink, theme_, theme_mutex_, completed, calls>>
  /\ ThreadFrame

\* config::get_theme: the lock is released and get_theme returns the copy
GetThemeUnlock(t) ==
  /\ threads[t].pc = "get_unlock"
  /\ theme_mutex_' = [theme_mutex_ EXCEPT !.readers = @ \ {t}]
  /\ Step(t, [threads[t] EXCEPT !.pc = "idle"])
  /\ UNCHANGED <<min_level, sink, theme_, completed, calls>>
  /\ ThreadFrame

ThreadNext ==
  \E t \in Threads :
    \/ ThreadSetLevel(t)
    \/ ThreadGetLevel(t)
    \/ LogEnter(t)
    \/ LogfCheck(t)
    \/ LogfFormat(t)
    \/ LogCheck(t)
    \/ LogFormat(t)
    \/ WriteEnter(t)
    \/ WritePrint(t)
    \/ SetThemeLock(t)
    \/ SetThemeCopy1(t)
    \/ SetThemeCopy2(t)
    \/ SetThemeUnlock(t)
    \/ GetThemeLock(t)
    \/ GetThemeCopy1(t)
    \/ GetThemeCopy2(t)
    \/ GetThemeUnlock(t)

ThreadSpec == ThreadInit /\ [][ThreadNext]_vars

(***************************************************************************)
(* Properties of the threads.                                              *)
(***************************************************************************)
\* C23: no two executions of the shared sink's write overlap, and no call
\* delivers more than one record.
WritesDoNotOverlap ==
  /\ \A t, u \in Threads :
       (threads[t].pc = "writing" /\ threads[u].pc = "writing") => t = u
  /\ \A t \in Threads : threads[t].delivered <= 1

\* thread t starts the call `op` in this step
Calls(t, op) == threads'[t].n = threads[t].n + 1 /\ threads'[t].op = op

\* the three themes of the library, whole
WholeThemes == { default_theme, plain, minlog }

\* C24: get_level returns the level of the set_level completed last, info
\* when there is none; get_theme returns the theme of the set_theme
\* completed last, the default theme when there is none, in every member,
\* and never members of two themes, whatever set_theme calls run meanwhile.
ConfigIsRegister ==
  [][ \A t \in Threads :
        /\ Calls(t, "get_level") => threads'[t].level = completed.level
        /\ (threads[t].pc = "get_unlock" /\ threads'[t].pc = "idle") =>
             /\ threads[t].copy = completed.theme
             /\ threads[t].copy \in WholeThemes
    ]_vars

\* C24 witness: get_theme has returned the plain theme, which a set_theme
\* that completed before had stored, and another set_theme is now half way
\* through its assignment
ThemeReadBack ==
  \E t \in Threads :
    /\ threads[t].op = "get_theme"
    /\ threads[t].pc = "idle"
    /\ threads[t].copy = plain
    /\ completed.theme = plain
    /\ theme_ \notin WholeThemes

\* C27: a `*_f` method called at a level that the filter rejects returns at
\* once and never calls format_string; a `*_f` call formats at most once,
\* writes only after it has formatted, and delivers at most one record,
\* whatever set_level calls run meanwhile.
FilterBeforeFormat ==
  [][ \A t \in Threads :
        /\ (Calls(t, "log_f") /\ ~Passes(threads'[t].lvl)) =>
             /\ threads'[t].pc = "idle"
             /\ threads'[t].formats = 0
             /\ threads'[t].delivered = 0
        /\ threads'[t].op = "log_f" =>
             /\ threads'[t].formats <= 1
             /\ threads'[t].delivered <= 1
             /\ threads'[t].pc \in {"check", "format", "write", "writing"} =>
                  threads'[t].formats = 1
             /\ threads'[t].delivered = 1 => threads'[t].formats = 1
             /\ threads'[t].formats > threads[t].formats => threads[t].pc = "f_format"
    ]_vars

\* C27 witness: an info_f call that passed the first filter check has
\* formatted its message and returned without a record, because set_level
\* lowered the level before the second check
FormattedNotDelivered ==
  \E t \in Threads :
    /\ threads[t].op = "log_f"
    /\ threads[t].pc = "idle"
    /\ threads[t].lvl = 3
    /\ threads[t].formats = 1
    /\ threads[t].delivered = 0
    /\ min_level = 2
    /\ sink = <<>>

(***************************************************************************)
(* file_sink objects.  A FILE is an index into files; files[1] is stderr.  *)
(* The move constructor and the move assignment are defaulted: they copy   *)
(* file_ and should_close_ and leave the source as it was.                 *)
(***************************************************************************)
MaxSinks == 3

\* the index of stderr in files
Stderr == 1

\* a FILE no fclose has been called on
OpenFile == [closes |-> 0]

\* fopen(filename, "a") returns a new FILE, or a null pointer
FopenResults == {"file", "null"}

\* file_sink::file_sink(filename), given what fopen returned
file_sink(opened, file) ==
  IF opened THEN [file_ |-> file, should_close_ |-> TRUE, alive |-> TRUE]
            ELSE [file_ |-> Stderr, should_close_ |-> FALSE, alive |-> TRUE]

\* file_sink(file_sink&&) = default, and what operator=(file_sink&&) = default
\* leaves in its target
moved(other) == [file_ |-> other.file_, should_close_ |-> other.should_close_, alive |-> TRUE]

\* file_sink::~file_sink: the files after the destructor has run
destroy(this, fs) ==
  IF this.should_close_ /\ this.file_ # 0
    THEN [fs EXCEPT ![this.file_].closes = @ + 1]
    ELSE fs

\* a program in which stderr is open and no file_sink has been constructed
SinkInit ==
  /\ format = <<>>
  /\ args = <<>>
  /\ pc = "idle"
  /\ pos = 1
  /\ arg_index = 0
  /\ result = NewStream
  /\ rendered = <<>>
  /\ LoggerInit
  /\ fault = "none"
  /\ api = Idle
  /\ use_color = FALSE
  /\ loggers = <<>>
  /\ sets = <<>>
  /\ formatters = <<>>
  /\ theme_ = default_theme
  /\ theme_mutex_ = Unlocked
  /\ threads = <<>>
  /\ completed = NoneCompleted
  /\ file_sinks = <<>>
  /\ files = <<OpenFile>>

\* what the actions on file_sink objects leave alone
SinkFrame ==
  /\ UNCHANGED printf_vars
  /\ UNCHANGED logger_vars
  /\ UNCHANGED <<loggers, sets, formatters, theme_, use_color, theme_mutex_, threads,
                 completed>>

\* file_sink s(filename);
SinkOpen ==
  /\ Len(file_sinks) < MaxSinks
  /\ \E r \in FopenResults :
       IF r = "file"
         THEN /\ files' = Append(files, OpenFile)
              /\ file_sinks' = Append(file_sinks, file_sink(TRUE, Len(files) + 1))
         ELSE /\ files' = files
              /\ file_sinks' = Append(file_sinks, file_sink(FALSE, 0))
  /\ SinkFrame

\* file_sink s(std::move(file_sinks[i]));
SinkMoveConstruct ==
  /\ Len(file_sinks) < MaxSinks
  /\ \E i \in 1..Len(file_sinks) :
       /\ file_sinks[i].alive
       /\ file_sinks' = Append(file_sinks, moved(file_sinks[i]))
  /\ UNCHANGED files
  /\ SinkFrame

\* file_sinks[i] = std::move(file_sinks[j]);
SinkMoveAssign ==
  /\ \E i \in 1..Len(file_sinks), j \in 1..Len(file_sinks) :
       /\ file_sinks[i].alive
       /\ file_sinks[j].alive
       /\ file_sinks' = [file_sinks EXCEPT ![i] = moved(file_sinks[j])]
  /\ UNCHANGED files
  /\ SinkFrame

\* file_sinks[i] goes out of scope
SinkDestroy ==
  /\ \E i \in 1..Len(file_sinks) :
       /\ file_sinks[i].alive
       /\ files' = destroy(file_sinks[i], files)
       /\ file_sinks' = [file_sinks EXCEPT ![i].alive = FALSE]
  /\ SinkFrame

SinkNext ==
  \/ SinkOpen
  \/ SinkMoveConstruct
  \/ SinkMoveAssign
  \/ SinkDestroy

SinkSpec == SinkInit /\ [][SinkNext]_vars

\* an object that is alive holds the file f
Held(f) == \E i \in 1..Len(file_sinks) : file_sinks[i].alive /\ file_sinks[i].file_ = f

\* C30: every file a file_sink opened is closed at most once, and exactly
\* once when no live file_sink holds it any more; stderr is never closed.
ClosedExactlyOnce ==
  /\ files[Stderr].closes = 0
  /\ \A f \in 2..Len(files) :
       /\ files[f].closes <= 1
       /\ ~Held(f) => files[f].closes = 1

(***************************************************************************)
(* format_spec_info::parse on the specifier handed to format_argument.     *)
(***************************************************************************)
\* the specifier text the scan is about to hand to format_argument
SpecAtCursor == SubSeq(format, NextPercent, WellFormedEnd(format, NextPercent))

\* the scan is at a well-formed specifier with an argument left, so that
\* format_argument, and parse inside it, is called on SpecAtCursor
ParseCalled ==
  /\ Scanning
  /\ AtWellFormed
  /\ arg_index < Len(args)

\* the fields the text sp denotes: the last character, the flags of the leading
\* run of '0' and '-', the decimal value of the digits behind the run
Denotes(info, sp) ==
  /\ info.format_char = sp[Len(sp)]
  /\ info.zero_pad <=> "0" \in Range(FlagsOf(sp))
  /\ info.left_align <=> "-" \in Range(FlagsOf(sp))
  /\ info.width = IF WidthOf(sp) = <<>> THEN 0 ELSE Stoi(WidthOf(sp))

\* C25: for every specifier text `%` flags digits [`.` digits] c, parse returns
\* the last character as the conversion character, zero_pad iff a '0' is in the
\* leading run of '0' and '-', left_align iff a '-' is in that run, and the
\* decimal value of the digits behind the run as the width, 0 without digits.
ParseReturnsFields ==
  ParseCalled =>
    /\ ~parse(SpecAtCursor).threw
    /\ Denotes(parse(SpecAtCursor), SpecAtCursor)

(***************************************************************************)
(* Termination of stream_printf.  The call runs on its caller's thread and *)
(* nothing suspends it, so a step that is possible is eventually taken.    *)
(***************************************************************************)
\* before the call: no template and no arguments yet
CallInit ==
  /\ format = <<>>
  /\ args = <<>>
  /\ pc = "call"
  /\ pos = 1
  /\ arg_index = 0
  /\ result = NewStream
  /\ rendered = <<>>
  /\ LoggerInit
  /\ fault = "none"
  /\ api = [name |-> "stream_printf", lvl |-> 0]
  /\ FacadeInit

\* stream_printf(format, args...) is entered with one of the inputs
Call ==
  /\ pc = "call"
  /\ \E input \in Inputs : format' = input[1] /\ args' = input[2]
  /\ pc' = IF args' = <<>> THEN "zero" ELSE "scan"
  /\ result' = IF args' = <<>> THEN Write(NewStream, format') ELSE NewStream
  /\ UNCHANGED <<pos, arg_index, rendered>>
  /\ UNCHANGED <<logger_vars, facade_vars>>

CallNext == Call \/ Next

\* the call has been entered and has not ended: exactly the states in which a
\* step of Next is possible
Running == pc \in {"zero", "scan"}

\* WF_vars(Next) with ENABLED <<Next>>_vars written out as Running
FairSpec ==
  /\ CallInit
  /\ [][CallNext]_vars
  /\ WF_vars(Call)
  /\ ([]<>(~Running) \/ []<><<Next>>_vars)

\* one iteration of the general loop: it leaves the loop, or the cursor moves
\* strictly forward, to two behind the '%' of a `%%` and to one behind the
\* conversion character of a specifier
ScanIteration ==
  pc = "scan" =>
    \/ pc' # "scan"
    \/ /\ pos' > pos
       /\ pos' = IF AtEscape THEN NextPercent + 2 ELSE ScanSpec(format, NextPercent) + 1

\* one iteration of the zero-argument loop: it returns, or the string gets
\* shorter and the search position moves forward
CollapseIteration ==
  pc = "zero" =>
    \/ pc' = "done"
    \/ /\ Len(result'.text) < Len(result.text)
       /\ pos' > pos

\* stream_printf has returned its string
Terminated == pc = "done"

\* C26: stream_printf terminates on every finite template.  Each iteration of
\* the general loop ends the scan or moves the cursor strictly forward (by 2
\* for `%%`, past the conversion character for a specifier), the cursor never
\* passes the end of the template, each `%%` replacement of the zero-argument
\* path shortens the string and advances the search position, and the scan
\* always reaches its terminal state, the return of the string.
ScanTerminates ==
  /\ [][ScanIteration /\ CollapseIteration]_vars
  /\ [](pc = "scan" => pos <= End)
  /\ <>Terminated

====
